---- MODULE Spec2Model ----
(***************************************************************************)
(* A model of go-fileMonitor: the FileMonitor worker pool and watcher      *)
(* mapping (monitor.go), the watcher scan loop and the per-file pipeline   *)
(* (dir.go, latest revision) and the copiers (copier.go, latest revision). *)
(*                                                                         *)
(* Granularity.  Every goroutine is a process whose position is a pc.  A   *)
(* step is one blocking point or one call to a collaborator (os.Stat,      *)
(* Executor.Process, Publisher.Publish, Copier.Copy, os.Remove) together   *)
(* with the straight-line code that follows it.  Paths, expressions and    *)
(* file names are sequences of one-character strings, so that slicing and  *)
(* substring search are computed as the code computes them.                *)
(*                                                                         *)
(* Abstractions.  A name stands for one watcher object at a time: obj      *)
(* tells the objects apart that a caller registers under it in turn, and   *)
(* an object is replaced only once its scan loop has ended.  Under Spec the *)
(* application keeps to one object per name; under SpecObjects it also     *)
(* hands AddDir a second one.  A NewDir that overwrites a watcher of the   *)
(* mapping is left out.  A call                                            *)
(* of Copier.Copy is one step; its failure leaves the destination as it    *)
(* was or truncated.  Every copier is a CopierLocal, monitored folders     *)
(* hold no subdirectories, regular expressions are literal fragments, and  *)
(* the Stats counters stay far below 2^64.  The racy read of d.Active in   *)
(* RemoveDir sees the value of the interleaving.  A panic that nothing     *)
(* recovers ends the process: no goroutine takes a step afterwards.        *)
(***************************************************************************)
EXTENDS Integers, Sequences, FiniteSets, TLC

(***************************************************************************)
(* Bounds of the model.                                                    *)
(***************************************************************************)
MaxJobs == 2          \* f.MaxJobs: capacity of the workerTasks channel
NumWorkers == 1       \* f.NumWorkers: goroutines launched by one startWorkers
MaxWorkerSlots == 2   \* worker goroutines alive at once, over all epochs
MaxLoops == 1         \* scan-loop goroutines alive at once per watcher
MaxWaiters == 2       \* pending "workerWg.Wait(); ctxCancel()" goroutines
MaxFaults == 1        \* environment failures (I/O errors) in one behaviour
MaxDrops == 1         \* files that arrive in monitored folders
MaxRules == 2         \* match rules in a list whose evaluation is examined
MaxObjects == 2       \* watcher objects a caller builds under one name
NumCPU == 2           \* runtime.NumCPU() of the machine
MaxCount == 2         \* a counter of a watcher when GetStats is examined

DirNames == {"d1", "d2"}
FileIds == {"foo", "foobar"}
WorkerIds == 1..MaxWorkerSlots
LoopIds == 1..MaxLoops
ObjIds == 1..MaxObjects

(***************************************************************************)
(* Strings as sequences of characters.                                     *)
(***************************************************************************)
Separator == "/"      \* filepath.Separator of the linux build

S_foo == <<"f", "o", "o">>
S_bar == <<"b", "a", "r">>
S_bad == <<"(">>      \* an expression regexp.Compile rejects

FileName(f) == IF f = "foo" THEN S_foo ELSE S_foo \o S_bar

\* fileStats.Size() of each file that arrives
FileSize(f) == IF f = "foo" THEN 2 ELSE 3

\* strings.ReplaceAll(s, old, new) for a one-character old
ReplaceAll(s, old, new) == [i \in DOMAIN s |-> IF s[i] = old THEN new ELSE s[i]]

\* Go's s[n:]
SliceFrom(s, n) == SubSeq(s, n + 1, Len(s))

RECURSIVE CollapseSep(_)
CollapseSep(s) ==
    IF Len(s) < 2 THEN s
    ELSE IF s[1] = Separator /\ s[2] = Separator THEN CollapseSep(Tail(s))
    ELSE <<s[1]>> \o CollapseSep(Tail(s))

\* filepath.Clean on the paths used here: duplicate separators collapse, a
\* leading "./" and a trailing separator are dropped.
Clean(s) ==
    LET c == CollapseSep(s)
        d == IF Len(c) >= 2 /\ c[1] = "." /\ c[2] = Separator THEN SliceFrom(c, 2) ELSE c
    IN  IF Len(d) > 1 /\ d[Len(d)] = Separator THEN SubSeq(d, 1, Len(d) - 1) ELSE d

\* filepath.Join(a, b)
Join(a, b) ==
    IF a = <<>> THEN Clean(b)
    ELSE IF b = <<>> THEN Clean(a)
    ELSE Clean(a \o <<Separator>> \o b)

getOutFileName(inFilePath, monitorDir, destination) ==
    IF SubSeq(monitorDir, 1, 1) = <<".">>
    THEN Join(destination, SliceFrom(inFilePath, Len(monitorDir) - 2))
    ELSE Join(destination, SliceFrom(inFilePath, Len(monitorDir)))

(***************************************************************************)
(* MatchGroup.                                                             *)
(***************************************************************************)
\* regexp.Compile on the literal fragment used here: an unclosed group fails
CompileOK(expr) == \A i \in DOMAIN expr : expr[i] # "("

\* (*Regexp).MatchString for a literal expression: unanchored substring search
MatchString(expr, name) ==
    \E i \in 1..(Len(name) - Len(expr) + 1) : SubSeq(name, i, i + Len(expr) - 1) = expr

\* a Match that forgets the Exclude flag
Match_NoExclude(m, filePath) ==
    IF ~CompileOK(m.Expression) THEN "err"
    ELSE LET name == ReplaceAll(filePath, Separator, "/")
         IN  IF MatchString(m.Expression, name) THEN "match" ELSE "nomatch"

\* a Match for which an expression that does not compile is satisfied
Match_BadIsMatch(m, filePath) ==
    IF ~CompileOK(m.Expression) THEN "match"
    ELSE LET name == ReplaceAll(filePath, Separator, "/")
         IN  IF MatchString(m.Expression, name) # m.Exclude THEN "match" ELSE "nomatch"

\* MatchGroup.Match: "err" when the expression does not compile
Match(m, filePath) ==
    IF ~CompileOK(m.Expression) THEN "err"
    ELSE LET name == ReplaceAll(filePath, Separator, "/")
         IN  IF MatchString(m.Expression, name) # m.Exclude THEN "match" ELSE "nomatch"

\* a loop that consults the first rule only
MatchAll_First(groups, filePath) ==
    IF groups = <<>> THEN "accept"
    ELSE LET r == Match(Head(groups), filePath)
         IN  IF r = "err" THEN "err"
             ELSE IF r = "nomatch" THEN "reject"
             ELSE "accept"

\* the loop over d.MatchGroups at the head of processFiles: "accept",
\* "reject" (a rule answered false) or "err" (a rule did not compile)
RECURSIVE MatchAll(_, _)
MatchAll(groups, filePath) ==
    IF groups = <<>> THEN "accept"
    ELSE LET r == Match(Head(groups), filePath)
         IN  IF r = "err" THEN "err"
             ELSE IF r = "nomatch" THEN "reject"
             ELSE MatchAll(Tail(groups), filePath)

(***************************************************************************)
(* Watcher objects.  A watcher is identified with its name.                *)
(***************************************************************************)
\* d.MonitorFolder of each watcher: one absolute root, one relative root
MonitorFolder(d) == IF d = "d1" THEN <<"/", "m">> ELSE <<".", "/", "n">>

\* Destination of the watcher's success copiers and of its error copiers
CopierDest(d) == IF d = "d1" THEN <<"/", "o">> ELSE <<"/", "p">>
ErrorDest(d) == IF d = "d1" THEN <<"/", "e">> ELSE <<"/", "g">>

\* Destination of the k-th copier of a list whose first copier writes to base
DestOf(base, k) == IF k = 1 THEN base ELSE base \o <<"2">>

Destinations ==
    { DestOf(base, k) : base \in UNION {{CopierDest(d), ErrorDest(d)} : d \in DirNames},
                        k \in 1..2 }

\* inFilePath := filepath.Join(dir, fileInfo.Name()), for every watcher and
\* every file that can arrive
InFilePaths == [d \in DirNames |-> [f \in FileIds |-> Join(MonitorFolder(d), FileName(f))]]

inFilePath(d, f) == InFilePaths[d][f]

\* getOutFileName(inFilePath, d.MonitorFolder, c.Destination), for every
\* watcher, file and destination
OutFileNames ==
    [d \in DirNames |-> [f \in FileIds |-> [dest \in Destinations |->
        getOutFileName(InFilePaths[d][f], MonitorFolder(d), dest)]]]

\* The configurations a caller builds a watcher with.  Processor is "nil",
\* "csv" (Type and Executor set) or "noexec" (&Processor{}: no Executor).
FooNotBar == << [Expression |-> S_foo, Exclude |-> FALSE],
                [Expression |-> S_bar, Exclude |-> TRUE] >>

CsvProfile ==
    [MatchGroups |-> FooNotBar, Processor |-> "csv", Publishers |-> 1,
     Copiers |-> 1, ErrorCopiers |-> 1]
PlainProfile ==
    [MatchGroups |-> <<>>, Processor |-> "nil", Publishers |-> 0,
     Copiers |-> 1, ErrorCopiers |-> 0]
NoExecProfile ==
    [MatchGroups |-> <<>>, Processor |-> "noexec", Publishers |-> 0,
     Copiers |-> 0, ErrorCopiers |-> 0]

\* a Dir value as the caller builds it, before AddDir
NewDirObject(p) ==
    [built |-> TRUE, MatchGroups |-> p.MatchGroups, Processor |-> p.Processor,
     Publishers |-> p.Publishers, Copiers |-> p.Copiers,
     ErrorCopiers |-> p.ErrorCopiers, obj |-> 1,
     Active |-> FALSE, ctx |-> "nil", TotalFiles |-> 0, TotalBytes |-> 0]

\* a name the caller builds no watcher for
NoDirObject == [NewDirObject(PlainProfile) EXCEPT !.built = FALSE, !.Copiers = 0]

\* The watchers the embedding application builds, one object per name
Applications ==
    { [d \in DirNames |-> IF d = "d1" THEN NewDirObject(CsvProfile) ELSE NoDirObject],
      [d \in DirNames |-> IF d = "d2" THEN NewDirObject(PlainProfile) ELSE NoDirObject],
      [d \in DirNames |-> IF d = "d1" THEN NewDirObject(NoExecProfile) ELSE NoDirObject] }

VARIABLES
    Dirs,         \* keys of f.Dirs
    dir,          \* the watcher object of each name
    persisted,    \* watcher names in the configuration file at f.configPath
    fctx,         \* f.ctx: "nil", "live" or "done"
    parentDone,   \* f.ctxParent has been cancelled
    tasksMade,    \* f.workerTasks # nil
    workerTasks,  \* the jobs buffered in the f.workerTasks channel
    startPc,      \* position of a Start() in progress: "idle", "recv", "resend"
    startHeld,    \* the task startWorkers sampled from the old queue
    waiters,      \* goroutines blocked in f.workerWg.Wait()
    worker,       \* worker goroutines: pc, job, publisher/copier index, log
    loop,         \* scan-loop goroutines of each watcher: pc, files to submit
    srcFS,        \* <<d, f>>: file f exists in watcher d's monitored folder
    outFS,        \* destination paths and their content: "empty" or "full"
    faults,       \* environment failures so far
    drops,        \* files that have arrived so far
    crashed,      \* an unrecovered panic has terminated the process
    probe         \* one evaluation of a watcher's match rules on a path

vars == << Dirs, dir, persisted, fctx, parentDone, tasksMade, workerTasks,
           startPc, startHeld, waiters, worker, loop, srcFS, outFS, faults,
           drops, crashed, probe >>

NoJob == [d |-> "-", f |-> "-"]
\* what the pipeline of the job in hand has done so far: the step that failed
\* ("-" while none has), the calls of processError, of error copiers, of
\* publishers and of success copiers, whether the processor was called,
\* whether Stats.Inc was called and whether os.Remove succeeded, and for the
\* last call of processError the error copiers that failed and its result
NoLog == [outcome |-> "-", perr |-> 0, ecops |-> 0, pubs |-> 0, cops |-> 0,
          proc |-> FALSE, counted |-> FALSE, removed |-> FALSE,
          failed |-> 0, ret |-> "-"]
IdleWorker == [pc |-> "idle", job |-> NoJob, k |-> 0, log |-> NoLog]
NoWorker == [pc |-> "none", job |-> NoJob, k |-> 0, log |-> NoLog]
NoLoop == [pc |-> "none", pending |-> <<>>]

NoProbe == [rules |-> <<>>, path |-> <<>>, result |-> "-"]

\* a FileMonitor before Start, and the watchers the application has built
MonitorInit ==
    /\ Dirs = {}
    /\ dir \in Applications
    /\ persisted = {}
    /\ fctx = "nil"
    /\ parentDone = FALSE
    /\ tasksMade = FALSE
    /\ workerTasks = <<>>
    /\ startPc = "idle"
    /\ startHeld = NoJob
    /\ waiters = 0
    /\ worker = [w \in WorkerIds |-> NoWorker]
    /\ loop = [d \in DirNames |-> [l \in LoopIds |-> NoLoop]]
    /\ srcFS = {}
    /\ outFS = <<>>
    /\ faults = 0
    /\ drops = 0
    /\ crashed = FALSE

Init == MonitorInit /\ probe = NoProbe

(***************************************************************************)
(* Contexts, the worker pool and the watcher mapping (monitor.go).         *)
(***************************************************************************)
\* FileMonitor.Connected
Connected == fctx = "live"

LiveWorkers == {w \in WorkerIds : worker[w].pc # "none"}
LiveLoops(d) == {l \in LoopIds : loop[d][l].pc # "none"}
FreeLoop(d) == CHOOSE l \in LoopIds \ LiveLoops(d) : \A m \in LoopIds \ LiveLoops(d) : l <= m

\* cancelling a context cancels the contexts derived from it
CancelChildren(dd) ==
    [d \in DirNames |-> IF dd[d].ctx = "live" THEN [dd[d] EXCEPT !.ctx = "done"] ELSE dd[d]]

\* Dir.Monitor: the Stats are reset, d.ctx is derived from the parent's f.ctx
Monitored(rec, parentCtx) ==
    [rec EXCEPT !.TotalFiles = 0, !.TotalBytes = 0,
                !.ctx = IF parentCtx = "done" THEN "done" ELSE "live"]

\* go d.monitor()
Spawned(lp, d) == [lp EXCEPT ![d][FreeLoop(d)] = [pc |-> "spawned", pending |-> <<>>]]

\* the loop over f.Dirs in Start: dir.Monitor() for every watcher
MonitorAllDirs(parentCtx) ==
    /\ dir' = [d \in DirNames |->
                 IF d \in Dirs THEN Monitored(dir[d], parentCtx) ELSE dir[d]]
    /\ loop' = [d \in DirNames |->
                 IF d \in Dirs
                 THEN [loop[d] EXCEPT ![FreeLoop(d)] = [pc |-> "spawned", pending |-> <<>>]]
                 ELSE loop[d]]

\* f.workerWg.Add(NumWorkers); go f.worker() NumWorkers times
LaunchSlots ==
    CHOOSE S \in SUBSET (WorkerIds \ LiveWorkers) :
        /\ Cardinality(S) = NumWorkers
        /\ \A x \in S, y \in (WorkerIds \ LiveWorkers) \ S : x < y

LaunchWorkers ==
    /\ worker' = [w \in WorkerIds |-> IF w \in LaunchSlots THEN IdleWorker ELSE worker[w]]
    /\ waiters' = waiters + 1

\* what the model needs to run Start to its end: goroutine slots
StartFits ==
    /\ Cardinality(WorkerIds \ LiveWorkers) >= NumWorkers
    /\ waiters < MaxWaiters
    /\ \A d \in Dirs : LiveLoops(d) # LoopIds

\* FileMonitor.Update: the configuration file is rewritten from f.Dirs, or
\* os.WriteFile fails and the file keeps its content
Update(newDirs) ==
    \/ /\ persisted' = newDirs
       /\ faults' = faults
    \/ /\ faults < MaxFaults
       /\ persisted' = persisted
       /\ faults' = faults + 1

\* Start on a monitor whose workers run: startWorkers returns at once and
\* every watcher of the mapping is monitored again
StartRunning ==
    /\ ~crashed /\ startPc = "idle"
    /\ fctx = "live"
    /\ \A d \in Dirs : LiveLoops(d) # LoopIds
    /\ MonitorAllDirs(fctx)
    /\ UNCHANGED << Dirs, persisted, fctx, parentDone, tasksMade, workerTasks,
                    startPc, startHeld, waiters, worker, srcFS, outFS, faults,
                    drops, crashed, probe >>

\* Start, first time: f.ctx is derived, the channel is made, the workers
\* are launched and every watcher of the mapping is monitored
StartFirst ==
    /\ ~crashed /\ startPc = "idle"
    /\ fctx # "live" /\ ~tasksMade
    /\ StartFits
    /\ fctx' = IF parentDone THEN "done" ELSE "live"
    /\ tasksMade' = TRUE
    /\ LaunchWorkers
    /\ MonitorAllDirs(fctx')
    /\ UNCHANGED << Dirs, persisted, parentDone, workerTasks, startPc, startHeld,
                    srcFS, outFS, faults, drops, crashed, probe >>

\* Start on a stopped pool: f.ctx is derived anew, then startWorkers samples
\* the old channel
StartAgain ==
    /\ ~crashed /\ startPc = "idle"
    /\ fctx = "done" /\ tasksMade
    /\ StartFits
    /\ fctx' = IF parentDone THEN "done" ELSE "live"
    /\ startPc' = "recv"
    /\ UNCHANGED << Dirs, dir, persisted, parentDone, tasksMade, workerTasks,
                    startHeld, waiters, worker, loop, srcFS, outFS, faults, drops,
                    crashed, probe >>

\* task, ok := <-f.workerTasks: blocks while the channel is empty
StartRecv ==
    /\ ~crashed /\ startPc = "recv"
    /\ workerTasks # <<>>
    /\ startHeld' = Head(workerTasks)
    /\ workerTasks' = Tail(workerTasks)
    /\ startPc' = "resend"
    /\ UNCHANGED << Dirs, dir, persisted, fctx, parentDone, tasksMade, waiters,
                    worker, loop, srcFS, outFS, faults, drops, crashed, probe >>

\* f.workerTasks <- task: blocks while the channel is full; then the workers
\* are launched and every watcher of the mapping is monitored
StartResend ==
    /\ ~crashed /\ startPc = "resend"
    /\ Len(workerTasks) < MaxJobs
    /\ workerTasks' = Append(workerTasks, startHeld)
    /\ startHeld' = NoJob
    /\ startPc' = "idle"
    /\ LaunchWorkers
    /\ MonitorAllDirs(fctx)
    /\ UNCHANGED << Dirs, persisted, fctx, parentDone, tasksMade, srcFS, outFS,
                    faults, drops, crashed, probe >>

\* the goroutine started by startWorkers: f.workerWg.Wait(); f.ctxCancel()
WaiterFire ==
    /\ ~crashed /\ waiters > 0
    /\ LiveWorkers = {}
    /\ waiters' = waiters - 1
    /\ fctx' = "done"
    /\ dir' = CancelChildren(dir)
    /\ UNCHANGED << Dirs, persisted, parentDone, tasksMade, workerTasks, startPc,
                    startHeld, worker, loop, srcFS, outFS, faults, drops, crashed, probe >>

\* the owner of f.ctxParent cancels it
CancelRoot ==
    /\ ~crashed /\ ~parentDone
    /\ parentDone' = TRUE
    /\ fctx' = IF fctx = "nil" THEN "nil" ELSE "done"
    /\ dir' = CancelChildren(dir)
    /\ UNCHANGED << Dirs, persisted, tasksMade, workerTasks, startPc, startHeld,
                    waiters, worker, loop, srcFS, outFS, faults, drops, crashed, probe >>

\* FileMonitor.AddDir(dir) with a watcher object o built for name d: the
\* object the name stands for, or the next object the caller builds under
\* the same name (Active unset, never monitored).  The entry of the mapping
\* is assigned without a look at what it holds.
AddDir(d, o) ==
    /\ ~crashed /\ startPc = "idle"
    /\ dir[d].built
    /\ Connected => LiveLoops(d) # LoopIds
    /\ o \in ObjIds
    /\ o = dir[d].obj \/ (o = dir[d].obj + 1 /\ LiveLoops(d) = {})
    /\ LET given == IF o = dir[d].obj THEN dir[d]
                    ELSE [dir[d] EXCEPT !.obj = o, !.Active = FALSE, !.ctx = "nil",
                                        !.TotalFiles = 0, !.TotalBytes = 0]
       IN  IF Connected
           THEN /\ dir' = [dir EXCEPT ![d] = Monitored(given, fctx)]
                /\ loop' = Spawned(loop, d)
           ELSE /\ dir' = [dir EXCEPT ![d] = given]
                /\ loop' = loop
    /\ Dirs' = Dirs \cup {d}
    /\ Update(Dirs')
    /\ UNCHANGED << fctx, parentDone, tasksMade, workerTasks, startPc, startHeld,
                    waiters, worker, srcFS, outFS, drops, crashed, probe >>

\* FileMonitor.Update called by the application: the configuration file is
\* rewritten from the mapping as it stands
UpdateConfig ==
    /\ ~crashed /\ startPc = "idle"
    /\ Update(Dirs)
    /\ UNCHANGED << Dirs, dir, fctx, parentDone, tasksMade, workerTasks, startPc,
                    startHeld, waiters, worker, loop, srcFS, outFS, drops, crashed,
                    probe >>

\* FileMonitor.NewDir for a name that is not in the mapping: the watcher
\* object is made anew with Active set, entered in the mapping and, on a
\* connected monitor, monitored
NewDir(d) ==
    /\ ~crashed /\ startPc = "idle"
    /\ dir[d].built
    /\ d \notin Dirs /\ LiveLoops(d) = {}
    /\ LET fresh == [dir[d] EXCEPT !.Active = TRUE, !.ctx = "nil",
                                   !.TotalFiles = 0, !.TotalBytes = 0]
       IN  IF Connected
           THEN /\ dir' = [dir EXCEPT ![d] = Monitored(fresh, fctx)]
                /\ loop' = Spawned(loop, d)
           ELSE /\ dir' = [dir EXCEPT ![d] = fresh]
                /\ loop' = loop
    /\ Dirs' = Dirs \cup {d}
    /\ Update(Dirs')
    /\ UNCHANGED << fctx, parentDone, tasksMade, workerTasks, startPc, startHeld,
                    waiters, worker, srcFS, outFS, drops, crashed, probe >>

\* FileMonitor.RemoveDir
RemoveDir(d) ==
    /\ ~crashed /\ startPc = "idle"
    /\ d \in Dirs
    /\ IF dir[d].Active /\ dir[d].ctx = "nil"
       THEN \* dir.ctxCancel is nil: the call panics
            /\ crashed' = TRUE
            /\ UNCHANGED << Dirs, dir, persisted, faults >>
       ELSE /\ dir' = [dir EXCEPT ![d].ctx =
                         IF dir[d].Active /\ @ = "live" THEN "done" ELSE @]
            /\ Dirs' = Dirs \ {d}
            /\ Update(Dirs')
            /\ crashed' = crashed
    /\ UNCHANGED << fctx, parentDone, tasksMade, workerTasks, startPc, startHeld,
                    waiters, worker, loop, srcFS, outFS, drops, probe >>

(***************************************************************************)
(* The scan loop of a watcher (Dir.monitor, Dir.readDir).                  *)
(***************************************************************************)
FileOrder == <<"foo", "foobar">>   \* os.ReadDir sorts by file name

\* the directory entries os.ReadDir returns for watcher d's folder
ReadDir(d) == SelectSeq(FileOrder, LAMBDA f : <<d, f>> \in srcFS)

\* d.Active = true at the head of Dir.monitor
LoopEnter(d, l) ==
    /\ ~crashed /\ loop[d][l].pc = "spawned"
    /\ loop' = [loop EXCEPT ![d][l].pc = "select"]
    /\ dir' = [dir EXCEPT ![d].Active = TRUE]
    /\ UNCHANGED << Dirs, persisted, fctx, parentDone, tasksMade, workerTasks,
                    startPc, startHeld, waiters, worker, srcFS, outFS, faults,
                    drops, crashed, probe >>

\* case <-ticker.C: readDir lists the folder; the files found are to be
\* submitted, an empty folder ends the scan
LoopTick(d, l) ==
    /\ ~crashed /\ loop[d][l].pc = "select"
    /\ loop' = [loop EXCEPT ![d][l] =
                  IF ReadDir(d) = <<>> THEN [pc |-> "select", pending |-> <<>>]
                  ELSE [pc |-> "send", pending |-> ReadDir(d)]]
    /\ UNCHANGED << Dirs, dir, persisted, fctx, parentDone, tasksMade, workerTasks,
                    startPc, startHeld, waiters, worker, srcFS, outFS, faults,
                    drops, crashed, probe >>

\* case <-ticker.C when os.ReadDir fails: the error is logged, continue
LoopScanFail(d, l) ==
    /\ ~crashed /\ loop[d][l].pc = "select"
    /\ faults < MaxFaults
    /\ faults' = faults + 1
    /\ UNCHANGED << Dirs, dir, persisted, fctx, parentDone, tasksMade, workerTasks,
                    startPc, startHeld, waiters, worker, loop, srcFS, outFS,
                    drops, crashed, probe >>

\* a submission that does not wait: select { case workerTasks <- func: default: }
LoopSend_Drop(d, l) ==
    /\ ~crashed /\ loop[d][l].pc = "send"
    /\ tasksMade
    /\ workerTasks' = IF Len(workerTasks) < MaxJobs
                      THEN Append(workerTasks, [d |-> d, f |-> Head(loop[d][l].pending)])
                      ELSE workerTasks
    /\ loop' = [loop EXCEPT ![d][l] =
                  IF Tail(@.pending) = <<>> THEN [pc |-> "select", pending |-> <<>>]
                  ELSE [pc |-> "send", pending |-> Tail(@.pending)]]
    /\ UNCHANGED << Dirs, dir, persisted, fctx, parentDone, tasksMade, startPc,
                    startHeld, waiters, worker, srcFS, outFS, faults, drops,
                    crashed, probe >>

\* d.parent.workerTasks <- func: blocks while the channel is full
LoopSend(d, l) ==
    /\ ~crashed /\ loop[d][l].pc = "send"
    /\ tasksMade
    /\ Len(workerTasks) < MaxJobs
    /\ workerTasks' = Append(workerTasks, [d |-> d, f |-> Head(loop[d][l].pending)])
    /\ loop' = [loop EXCEPT ![d][l] =
                  IF Tail(@.pending) = <<>> THEN [pc |-> "select", pending |-> <<>>]
                  ELSE [pc |-> "send", pending |-> Tail(@.pending)]]
    /\ UNCHANGED << Dirs, dir, persisted, fctx, parentDone, tasksMade, startPc,
                    startHeld, waiters, worker, srcFS, outFS, faults, drops,
                    crashed, probe >>

\* case <-d.ctx.Done(): return; the deferred d.Active = false runs
LoopExit(d, l) ==
    /\ ~crashed /\ loop[d][l].pc = "select"
    /\ dir[d].ctx = "done"
    /\ loop' = [loop EXCEPT ![d][l] = NoLoop]
    /\ dir' = [dir EXCEPT ![d].Active = FALSE]
    /\ UNCHANGED << Dirs, persisted, fctx, parentDone, tasksMade, workerTasks,
                    startPc, startHeld, waiters, worker, srcFS, outFS, faults,
                    drops, crashed, probe >>

\* a file arrives in a monitored folder
DropFile(d, f) ==
    /\ ~crashed /\ drops < MaxDrops
    /\ dir[d].built
    /\ <<d, f>> \notin srcFS
    /\ srcFS' = srcFS \cup {<<d, f>>}
    /\ drops' = drops + 1
    /\ UNCHANGED << Dirs, dir, persisted, fctx, parentDone, tasksMade, workerTasks,
                    startPc, startHeld, waiters, worker, loop, outFS, faults,
                    crashed, probe >>

(***************************************************************************)
(* Copiers (CopierLocal.Copy) and Dir.processError.                        *)
(***************************************************************************)
WriteFile(fs, path, content) ==
    [q \in (DOMAIN fs) \cup {path} |-> IF q = path THEN content ELSE fs[q]]

\* CopierLocal.Copy(filePath, monitorDir) for a copier with Destination dest.
\* os.MkdirAll or os.Create may fail (nothing is written); os.Create
\* truncates the destination, so a failure of os.Open or io.Copy after it
\* leaves an empty file; otherwise the destination holds the source's bytes.
\* fault = 1 when the failure is the environment's, not a missing source.
CopyLocal(fs, d, f, dest, srcExists, mayFault) ==
    LET out == OutFileNames[d][f][dest]
    IN  (IF srcExists
         THEN {[fs |-> WriteFile(fs, out, "full"), ok |-> TRUE, fault |-> 0]}
         ELSE {[fs |-> WriteFile(fs, out, "empty"), ok |-> FALSE, fault |-> 0]})
        \cup
        (IF mayFault
         THEN {[fs |-> fs, ok |-> FALSE, fault |-> 1],
               [fs |-> WriteFile(fs, out, "empty"), ok |-> FALSE, fault |-> 1]}
         ELSE {})

\* a processError that gives up at the first error copier that fails
RECURSIVE ErrorCopies_StopAtFirst(_, _, _, _, _, _, _)
ErrorCopies_StopAtFirst(fs, d, f, k, srcExists, used, errs) ==
    IF k > dir[d].ErrorCopiers \/ errs > 0
    THEN {[fs |-> fs, used |-> used, errs |-> errs, ran |-> 0]}
    ELSE UNION { { [r EXCEPT !.ran = @ + 1] :
                     r \in ErrorCopies_StopAtFirst(o.fs, d, f, k + 1, srcExists,
                                                   used + o.fault,
                                                   errs + (IF o.ok THEN 0 ELSE 1)) } :
                 o \in CopyLocal(fs, d, f, DestOf(ErrorDest(d), k), srcExists,
                                 faults + used < MaxFaults) }

\* Dir.processError from its k-th error copier on: every error copier is
\* run, the failures are collected.  The results: the destinations, the
\* faults used, the number of copiers that failed and of copiers that ran.
RECURSIVE ErrorCopies(_, _, _, _, _, _, _)
ErrorCopies(fs, d, f, k, srcExists, used, errs) ==
    IF k > dir[d].ErrorCopiers
    THEN {[fs |-> fs, used |-> used, errs |-> errs, ran |-> 0]}
    ELSE UNION { { [r EXCEPT !.ran = @ + 1] :
                     r \in ErrorCopies(o.fs, d, f, k + 1, srcExists, used + o.fault,
                                       errs + (IF o.ok THEN 0 ELSE 1)) } :
                 o \in CopyLocal(fs, d, f, DestOf(ErrorDest(d), k), srcExists,
                                 faults + used < MaxFaults) }

processError(fs, d, f, used) ==
    ErrorCopies(fs, d, f, 1, <<d, f>> \in srcFS, used, 0)

\* the error processError returns for the failures it collected: nil, the
\* one failure wrapped, or one error that lists them all
ErrorOf(errs) == IF errs = 0 THEN "nil" ELSE IF errs = 1 THEN "one" ELSE "all"

\* the log after a call of processError with result o
LogError(log, o) ==
    [log EXCEPT !.perr = @ + 1, !.ecops = @ + o.ran, !.failed = o.errs,
                !.ret = ErrorOf(o.errs)]

(***************************************************************************)
(* The worker loop (FileMonitor.worker) and the per-file pipeline          *)
(* (Dir.processFiles).                                                     *)
(***************************************************************************)
\* an Inc that counts the file and forgets its bytes
Inc_FilesOnly(rec, totalBytes) ==
    [rec EXCEPT !.TotalFiles = @ + 1]

\* Stats.Inc
Inc(rec, totalBytes) ==
    [rec EXCEPT !.TotalFiles = @ + 1, !.TotalBytes = @ + totalBytes]

\* case task, ok := <-f.workerTasks
WorkerTake(w) ==
    /\ ~crashed /\ worker[w].pc = "idle"
    /\ workerTasks # <<>>
    /\ worker' = [worker EXCEPT ![w] = [pc |-> "start", job |-> Head(workerTasks),
                                        k |-> 0, log |-> NoLog]]
    /\ workerTasks' = Tail(workerTasks)
    /\ UNCHANGED << Dirs, dir, persisted, fctx, parentDone, tasksMade, startPc,
                    startHeld, waiters, loop, srcFS, outFS, faults, drops, crashed, probe >>

\* a worker that returns only when the channel is closed; nothing closes it
WorkerExit_OnClose(w) ==
    /\ ~crashed /\ worker[w].pc = "idle"
    /\ FALSE
    /\ worker' = [worker EXCEPT ![w] = NoWorker]
    /\ UNCHANGED << Dirs, dir, persisted, fctx, parentDone, tasksMade, workerTasks,
                    startPc, startHeld, waiters, loop, srcFS, outFS, faults, drops,
                    crashed, probe >>

\* case <-f.ctx.Done(): return; the deferred f.workerWg.Done() runs
WorkerExit(w) ==
    /\ ~crashed /\ worker[w].pc = "idle"
    /\ fctx = "done"
    /\ worker' = [worker EXCEPT ![w] = NoWorker]
    /\ UNCHANGED << Dirs, dir, persisted, fctx, parentDone, tasksMade, workerTasks,
                    startPc, startHeld, waiters, loop, srcFS, outFS, faults, drops,
                    crashed, probe >>

\* where the pipeline goes once the publishers are done, and once stat is
AfterPublish(d) == IF dir[d].Copiers >= 1 THEN "copy" ELSE "delete"
AfterStat_NoPublish(d) == AfterPublish(d)
AfterStat(d) == IF dir[d].Processor # "nil" THEN "process" ELSE AfterPublish(d)

\* processFiles up to the deferred delete: the match rules, os.Stat, Stats.Inc
PipeStart(w) ==
    LET d == worker[w].job.d
        f == worker[w].job.f
        m == MatchAll(dir[d].MatchGroups, inFilePath(d, f))
    IN  /\ ~crashed /\ worker[w].pc = "start"
        /\ \/ \* a rule rejects the file, or does not compile: return
              /\ m # "accept"
              /\ worker' = [worker EXCEPT ![w].pc = "ret",
                               ![w].log.outcome = IF m = "err" THEN "matcherr" ELSE "reject"]
              /\ UNCHANGED << dir, outFS, faults >>
           \/ \* os.Stat succeeds: Stats.Inc, the delete is deferred
              /\ m = "accept" /\ <<d, f>> \in srcFS
              /\ dir' = [dir EXCEPT ![d] = Inc(@, FileSize(f))]
              /\ worker' = [worker EXCEPT ![w].pc = AfterStat(d), ![w].k = 1,
                               ![w].log.counted = TRUE]
              /\ UNCHANGED << outFS, faults >>
           \/ \* os.Stat fails: processError, return
              /\ m = "accept"
              /\ \E st \in {0, 1} :
                    /\ st = 0 => <<d, f>> \notin srcFS
                    /\ st = 1 => faults < MaxFaults
                    /\ \E o \in processError(outFS, d, f, st) :
                          /\ outFS' = o.fs
                          /\ faults' = faults + o.used
                          /\ worker' = [worker EXCEPT ![w].pc = "ret",
                                 ![w].log = LogError([@ EXCEPT !.outcome = "stat"], o)]
              /\ dir' = dir
        /\ UNCHANGED << Dirs, persisted, fctx, parentDone, tasksMade, workerTasks,
                        startPc, startHeld, waiters, loop, srcFS, drops, crashed, probe >>

\* d.Processor.Executor.Process(inFilePath)
PipeProcess(w) ==
    LET d == worker[w].job.d
        f == worker[w].job.f
    IN  /\ ~crashed /\ worker[w].pc = "process"
        /\ \/ \* Executor is nil: the call panics; the deferred os.Remove runs
              \* while the panic unwinds, nothing recovers it
              /\ dir[d].Processor = "noexec"
              /\ crashed' = TRUE
              /\ srcFS' = srcFS \ {<<d, f>>}
              /\ UNCHANGED << worker, outFS, faults >>
           \/ \* the processor succeeds
              /\ dir[d].Processor = "csv" /\ <<d, f>> \in srcFS
              /\ worker' = [worker EXCEPT ![w].log.proc = TRUE, ![w].k = 1,
                               ![w].pc = IF dir[d].Publishers >= 1 THEN "publish"
                                         ELSE AfterPublish(d)]
              /\ UNCHANGED << outFS, faults, crashed, srcFS >>
           \/ \* the processor fails: processError, return (the delete runs)
              /\ dir[d].Processor = "csv"
              /\ \E st \in {0, 1} :
                    /\ st = 0 => <<d, f>> \notin srcFS
                    /\ st = 1 => faults < MaxFaults
                    /\ \E o \in processError(outFS, d, f, st) :
                          /\ outFS' = o.fs
                          /\ faults' = faults + o.used
                          /\ worker' = [worker EXCEPT ![w].pc = "delete",
                                 ![w].log = LogError([@ EXCEPT !.proc = TRUE,
                                                               !.outcome = "process"], o)]
              /\ UNCHANGED << crashed, srcFS >>
        /\ UNCHANGED << Dirs, dir, persisted, fctx, parentDone, tasksMade,
                        workerTasks, startPc, startHeld, waiters, loop, drops, probe >>

\* publisher.Publish(d, results, id) for the k-th publisher
PipePublish(w) ==
    LET d == worker[w].job.d
        f == worker[w].job.f
        k == worker[w].k
    IN  /\ ~crashed /\ worker[w].pc = "publish"
        /\ \/ \* the publisher fails: return (the delete runs)
              /\ faults < MaxFaults
              /\ faults' = faults + 1
              /\ outFS' = outFS
              /\ worker' = [worker EXCEPT ![w].pc = "delete",
                               ![w].log.pubs = @ + 1, ![w].log.outcome = "publish"]
           \/ \* the publisher succeeds: processError is called, then the
              \* next publisher or the copiers
              /\ \E o \in processError(outFS, d, f, 0) :
                    /\ outFS' = o.fs
                    /\ faults' = faults + o.used
                    /\ worker' = [worker EXCEPT
                           ![w].log = LogError([@ EXCEPT !.pubs = @ + 1], o),
                           ![w].k = IF k < dir[d].Publishers THEN k + 1 ELSE 1,
                           ![w].pc = IF k < dir[d].Publishers THEN "publish"
                                     ELSE AfterPublish(d)]
        /\ UNCHANGED << Dirs, dir, persisted, fctx, parentDone, tasksMade,
                        workerTasks, startPc, startHeld, waiters, loop, srcFS, drops,
                        crashed, probe >>

\* copier.Copy(inFilePath, d.MonitorFolder) for the k-th success copier
PipeCopy(w) ==
    LET d == worker[w].job.d
        f == worker[w].job.f
        k == worker[w].k
    IN  /\ ~crashed /\ worker[w].pc = "copy"
        /\ \E c \in CopyLocal(outFS, d, f, DestOf(CopierDest(d), k),
                              <<d, f>> \in srcFS, faults < MaxFaults) :
              \/ \* the copy succeeds: the next copier, or return
                 /\ c.ok
                 /\ outFS' = c.fs
                 /\ faults' = faults
                 /\ worker' = [worker EXCEPT
                                  ![w].log.cops = @ + 1,
                                  ![w].k = IF k < dir[d].Copiers THEN k + 1 ELSE 1,
                                  ![w].pc = IF k < dir[d].Copiers THEN "copy"
                                            ELSE "delete"]
              \/ \* the copy fails: processError, return (the delete runs)
                 /\ ~c.ok
                 /\ \E o \in processError(c.fs, d, f, c.fault) :
                       /\ outFS' = o.fs
                       /\ faults' = faults + o.used
                       /\ worker' = [worker EXCEPT ![w].pc = "delete",
                              ![w].log = LogError([@ EXCEPT !.cops = @ + 1,
                                                            !.outcome = "copy"], o)]
        /\ UNCHANGED << Dirs, dir, persisted, fctx, parentDone, tasksMade,
                        workerTasks, startPc, startHeld, waiters, loop, srcFS, drops,
                        crashed, probe >>

\* the deferred function: os.Remove(inFilePath), processError when it fails
PipeDelete(w) ==
    LET d == worker[w].job.d
        f == worker[w].job.f
    IN  /\ ~crashed /\ worker[w].pc = "delete"
        /\ \/ \* the file is removed
              /\ <<d, f>> \in srcFS
              /\ srcFS' = srcFS \ {<<d, f>>}
              /\ worker' = [worker EXCEPT ![w].pc = "ret", ![w].log.removed = TRUE,
                               ![w].log.outcome = IF @ = "-" THEN "ok" ELSE @]
              /\ UNCHANGED << outFS, faults >>
           \/ \* os.Remove fails: processError
              /\ \E st \in {0, 1} :
                    /\ st = 0 => <<d, f>> \notin srcFS
                    /\ st = 1 => faults < MaxFaults
                    /\ \E o \in processError(outFS, d, f, st) :
                          /\ outFS' = o.fs
                          /\ faults' = faults + o.used
                          /\ worker' = [worker EXCEPT ![w].pc = "ret",
                                 ![w].log = LogError([@ EXCEPT !.outcome =
                                                IF @ = "-" THEN "delete" ELSE @], o)]
              /\ srcFS' = srcFS
        /\ UNCHANGED << Dirs, dir, persisted, fctx, parentDone, tasksMade,
                        workerTasks, startPc, startHeld, waiters, loop, drops, crashed, probe >>

\* task() has returned: the worker is back at its select
PipeReturn(w) ==
    /\ ~crashed /\ worker[w].pc = "ret"
    /\ worker' = [worker EXCEPT ![w] = IdleWorker]
    /\ UNCHANGED << Dirs, dir, persisted, fctx, parentDone, tasksMade, workerTasks,
                    startPc, startHeld, waiters, loop, srcFS, outFS, faults, drops,
                    crashed, probe >>

(***************************************************************************)
(* The system.                                                             *)
(***************************************************************************)
Next ==
    \/ StartFirst
    \/ StartRunning
    \/ StartAgain
    \/ StartRecv
    \/ StartResend
    \/ WaiterFire
    \/ CancelRoot
    \/ \E d \in DirNames : AddDir(d, dir[d].obj)
    \/ UpdateConfig
    \/ \E d \in DirNames : NewDir(d)
    \/ \E d \in DirNames : RemoveDir(d)
    \/ \E d \in DirNames, l \in LoopIds : LoopEnter(d, l)
    \/ \E d \in DirNames, l \in LoopIds : LoopTick(d, l)
    \/ \E d \in DirNames, l \in LoopIds : LoopScanFail(d, l)
    \/ \E d \in DirNames, l \in LoopIds : LoopSend(d, l)
    \/ \E d \in DirNames, l \in LoopIds : LoopExit(d, l)
    \/ \E d \in DirNames, f \in FileIds : DropFile(d, f)
    \/ \E w \in WorkerIds : WorkerTake(w)
    \/ \E w \in WorkerIds : WorkerExit(w)
    \/ \E w \in WorkerIds : PipeStart(w)
    \/ \E w \in WorkerIds : PipeProcess(w)
    \/ \E w \in WorkerIds : PipePublish(w)
    \/ \E w \in WorkerIds : PipeCopy(w)
    \/ \E w \in WorkerIds : PipeDelete(w)
    \/ \E w \in WorkerIds : PipeReturn(w)

Spec == Init /\ [][Next]_vars

\* The monitor with an application that builds a second watcher object
\* under a name and hands it to AddDir
NextObjects ==
    \/ Next
    \/ \E d \in DirNames : AddDir(d, dir[d].obj + 1)

SpecObjects == Init /\ [][NextObjects]_vars

(***************************************************************************)
(* Scheduling of the worker goroutines.  A worker that runs a job goes on  *)
(* with it: the calls to the collaborators return.  The select of an idle  *)
(* worker chooses at random among its ready cases, so a cancellation case  *)
(* that is ready again and again is chosen.  Nothing else is forced: not   *)
(* the callers of the API, the arrival of files, the tickers, nor the      *)
(* cancellation of the root scope.                                         *)
(***************************************************************************)
\* the step of the pipeline worker w runs
PipeAny(w) ==
    \/ PipeStart(w) \/ PipeProcess(w) \/ PipePublish(w)
    \/ PipeCopy(w) \/ PipeDelete(w) \/ PipeReturn(w)

Fairness ==
    \A w \in WorkerIds : WF_vars(PipeAny(w)) /\ SF_vars(WorkerExit(w))

FairSpec == Init /\ [][Next]_vars /\ Fairness

(***************************************************************************)
(* The match rules of a watcher evaluated on one path: every list of at    *)
(* most MaxRules rules over three expressions, every path of ProbePaths.   *)
(***************************************************************************)
ProbeRules == [Expression : {S_foo, S_bar, S_bad}, Exclude : BOOLEAN]

RuleLists == UNION {[1..n -> ProbeRules] : n \in 0..MaxRules}

ProbePaths ==
    { Join(root, name) : root \in {<<"/", "m">>, <<"/">> \o S_bar},
                         name \in {S_foo, S_bar, S_foo \o S_bar, <<"x">>} }

InitMatch ==
    /\ MonitorInit
    /\ probe \in [rules : RuleLists, path : ProbePaths, result : {"-"}]

\* the loop over d.MatchGroups at the head of processFiles
EvalMatch ==
    /\ probe.result = "-"
    /\ probe' = [probe EXCEPT !.result = MatchAll(probe.rules, probe.path)]
    /\ UNCHANGED << Dirs, dir, persisted, fctx, parentDone, tasksMade, workerTasks,
                    startPc, startHeld, waiters, worker, loop, srcFS, outFS, faults,
                    drops, crashed >>

NextMatch == EvalMatch

SpecMatch == InitMatch /\ [][NextMatch]_vars

(***************************************************************************)
(* Stored transports and processors (copier.go, processor.go).  A Go value *)
(* of a transport is a record of its variant and its fields; the function  *)
(* fields of CopierFtp are TRUE when they are set.  A stored transport is  *)
(* the JSON object: whether it has a "Type" key, the number under it, and  *)
(* whether the other fields have the JSON types of the struct ("ok") or    *)
(* not ("bad").                                                            *)
(***************************************************************************)
CopierTypeNull == 0
CopierTypeLocal == 1
CopierTypeFTP == 2

ProcessorTypeNull == 0
ProcessorTypeCsv == 1

MaxType == 3          \* largest discriminator of a stored object

\* every state variable but probe
monitorVars ==
    << Dirs, dir, persisted, fctx, parentDone, tasksMade, workerTasks, startPc,
       startHeld, waiters, worker, loop, srcFS, outFS, faults, drops, crashed >>

NilCopier ==
    [variant |-> "nil", Destination |-> <<>>, Server |-> "", Username |-> "",
     Password |-> "", EncryptionFunc |-> FALSE, DecryptionFunc |-> FALSE]

\* the transports an application configures
LocalCopiers ==
    { [NilCopier EXCEPT !.variant = "Local", !.Destination = dest] :
        dest \in {CopierDest("d1"), ErrorDest("d1")} }

FtpCopiers ==
    { [NilCopier EXCEPT !.variant = "Ftp", !.Destination = dest, !.Server = "srv",
                        !.Username = "u", !.Password = "pw",
                        !.EncryptionFunc = e, !.DecryptionFunc = g] :
        dest \in {CopierDest("d1"), ErrorDest("d1")}, e \in BOOLEAN, g \in BOOLEAN }

\* Copier.GetType
GetType(c) == IF c.variant = "Local" THEN CopierTypeLocal ELSE CopierTypeFTP

\* CopierLocal.MarshalJSON and CopierFtp.MarshalJSON: the type is injected
\* and the exported fields are written; the fields tagged json:"-" are not
MarshalJSON(c) ==
    [hasType |-> TRUE, Type |-> GetType(c), payload |-> "ok",
     Destination |-> c.Destination, Server |-> c.Server, Username |-> c.Username,
     Password |-> c.Password]

\* CopierAlias.UnmarshalJSON: the Type key is taken out, the rest is Details
CopierAlias_UnmarshalJSON(stored) ==
    IF ~stored.hasType
    THEN [err |-> TRUE, Type |-> CopierTypeNull, Details |-> stored]
    ELSE [err |-> FALSE, Type |-> stored.Type, Details |-> stored]

\* json.Unmarshal(c.Details, copier) into a zero value of the variant
FromDetails(variant, details) ==
    IF details.payload = "ok"
    THEN IF variant = "Local"
         THEN [NilCopier EXCEPT !.variant = "Local", !.Destination = details.Destination]
         ELSE [NilCopier EXCEPT !.variant = "Ftp", !.Destination = details.Destination,
                                !.Server = details.Server, !.Username = details.Username,
                                !.Password = details.Password]
    ELSE [NilCopier EXCEPT !.variant = variant]

\* GetCopier with Type 0 taken for a local transport
GetCopier_NullAsLocal(alias) ==
    IF alias.Type \in {CopierTypeNull, CopierTypeLocal}
    THEN [err |-> alias.Details.payload # "ok", copier |-> FromDetails("Local", alias.Details)]
    ELSE IF alias.Type = CopierTypeFTP
    THEN [err |-> alias.Details.payload # "ok", copier |-> FromDetails("Ftp", alias.Details)]
    ELSE [err |-> TRUE, copier |-> NilCopier]

\* CopierAlias.GetCopier
GetCopier(alias) ==
    IF alias.Type = CopierTypeNull
    THEN [err |-> TRUE, copier |-> NilCopier]
    ELSE IF alias.Type = CopierTypeLocal
    THEN [err |-> alias.Details.payload # "ok", copier |-> FromDetails("Local", alias.Details)]
    ELSE IF alias.Type = CopierTypeFTP
    THEN [err |-> alias.Details.payload # "ok", copier |-> FromDetails("Ftp", alias.Details)]
    ELSE [err |-> TRUE, copier |-> NilCopier]

\* one element of Copiers in Dir.UnmarshalJSON: json.Unmarshal into the
\* CopierAlias, then GetCopier
DecodeCopier(stored) ==
    LET alias == CopierAlias_UnmarshalJSON(stored)
    IN  IF alias.err THEN [err |-> TRUE, copier |-> NilCopier] ELSE GetCopier(alias)

\* ProcessorType.unmarshalType on the Executor message: absent, JSON null,
\* a well-formed object ("ok") or an object of the wrong shape ("bad")
unmarshalType(type, data) ==
    IF type = ProcessorTypeNull THEN [err |-> TRUE, Executor |-> "nil"]
    ELSE IF type = ProcessorTypeCsv
    THEN [err |-> data \in {"absent", "bad"}, Executor |-> "csv"]
    ELSE [err |-> TRUE, Executor |-> "nil"]

\* Processor.UnmarshalJSON: a missing Type key leaves aux.Type zero
Processor_UnmarshalJSON(stored) ==
    LET type == IF stored.hasType THEN stored.Type ELSE ProcessorTypeNull
        r == unmarshalType(type, stored.Executor)
    IN  [err |-> r.err, Type |-> type, Executor |-> r.Executor]

\* The outcome of one Copy: the error, whether ftp.Dial was called, and the
\* destination file that was created or stored (<<>> for none).  The calls
\* Copy makes to the operating system or the server are numbered in the
\* order of the code; fail names the first one that fails.
FailAt == {"never", "first", "second", "third", "fourth"}

NoOutcome == [err |-> "-", dialed |-> FALSE, wrote |-> <<>>]

\* CopierLocal.Copy of file f of watcher d1: MkdirAll, Create, Open, io.Copy
CopierLocal_Copy(c, f, fail) ==
    LET outFileName == OutFileNames["d1"][f][c.Destination]
    IN  IF fail = "first" THEN [err |-> "mkdir", dialed |-> FALSE, wrote |-> <<>>]
        ELSE IF fail = "second" THEN [err |-> "create", dialed |-> FALSE, wrote |-> <<>>]
        ELSE IF fail = "third" THEN [err |-> "open", dialed |-> FALSE, wrote |-> outFileName]
        ELSE IF fail = "fourth" THEN [err |-> "copy", dialed |-> FALSE, wrote |-> outFileName]
        ELSE [err |-> "nil", dialed |-> FALSE, wrote |-> outFileName]

\* the calls of CopierFtp.Copy after its check: Dial, Login, Open, Stor
FtpTransfer(c, f, fail) ==
    IF fail = "first" THEN [err |-> "connect", dialed |-> TRUE, wrote |-> <<>>]
    ELSE IF fail = "second" THEN [err |-> "login", dialed |-> TRUE, wrote |-> <<>>]
    ELSE IF fail = "third" THEN [err |-> "open", dialed |-> TRUE, wrote |-> <<>>]
    ELSE IF fail = "fourth" THEN [err |-> "upload", dialed |-> TRUE, wrote |-> <<>>]
    ELSE [err |-> "nil", dialed |-> TRUE,
          wrote |-> OutFileNames["d1"][f][c.Destination]]

\* CopierFtp.Copy that looks at the encryption function only
CopierFtp_Copy_EncOnly(c, f, fail) ==
    IF ~c.EncryptionFunc
    THEN [err |-> "config", dialed |-> FALSE, wrote |-> <<>>]
    ELSE FtpTransfer(c, f, fail)

\* CopierFtp.Copy
CopierFtp_Copy(c, f, fail) ==
    IF ~c.EncryptionFunc \/ ~c.DecryptionFunc
    THEN [err |-> "config", dialed |-> FALSE, wrote |-> <<>>]
    ELSE FtpTransfer(c, f, fail)

\* Copier.Copy through the interface
Copy(c, f, fail) ==
    IF c.variant = "Local" THEN CopierLocal_Copy(c, f, fail) ELSE CopierFtp_Copy(c, f, fail)

NoDecoded == [err |-> FALSE, copier |-> NilCopier]

\* a configured transport, a file of watcher d1 and the failure its Copy meets
CopierProbes ==
    [op : {"copier"}, given : LocalCopiers \cup FtpCopiers, file : FileIds,
     fail : FailAt, decoded : {FALSE}, back : {NoDecoded},
     outGiven : {NoOutcome}, outBack : {NoOutcome}]

StoredCopiers ==
    [hasType : BOOLEAN, Type : 0..MaxType, payload : {"ok", "bad"},
     Destination : {CopierDest("d1")}, Server : {"srv"}, Username : {"u"},
     Password : {"pw"}]

StoredProcessors ==
    [hasType : BOOLEAN, Type : 0..MaxType, Executor : {"absent", "null", "ok", "bad"}]

NoProcessor == [err |-> FALSE, Type |-> ProcessorTypeNull, Executor |-> "nil"]

InitCopier ==
    /\ MonitorInit
    /\ \/ probe \in CopierProbes
       \/ probe \in [op : {"stored"}, stored : StoredCopiers, decoded : {FALSE},
                     back : {NoDecoded}]
       \/ probe \in [op : {"processor"}, stored : StoredProcessors, decoded : {FALSE},
                     back : {NoProcessor}]

\* the transport is written with MarshalJSON and read back as an element of
\* a watcher's Copiers
RoundTrip ==
    /\ probe.op = "copier" /\ ~probe.decoded
    /\ probe' = [probe EXCEPT !.decoded = TRUE,
                              !.back = DecodeCopier(MarshalJSON(probe.given))]
    /\ UNCHANGED monitorVars

\* Copy of the configured transport
CopyGiven ==
    /\ probe.op = "copier" /\ probe.outGiven = NoOutcome
    /\ probe' = [probe EXCEPT !.outGiven = Copy(probe.given, probe.file, probe.fail)]
    /\ UNCHANGED monitorVars

\* Copy of the transport that was read back, on the same file in the same
\* surroundings
CopyBack ==
    /\ probe.op = "copier" /\ probe.decoded /\ ~probe.back.err
    /\ probe.outBack = NoOutcome
    /\ probe' = [probe EXCEPT !.outBack = Copy(probe.back.copier, probe.file, probe.fail)]
    /\ UNCHANGED monitorVars

\* a stored transport is read
DecodeStored ==
    /\ probe.op = "stored" /\ ~probe.decoded
    /\ probe' = [probe EXCEPT !.decoded = TRUE, !.back = DecodeCopier(probe.stored)]
    /\ UNCHANGED monitorVars

\* a stored processor is read
DecodeProcessor ==
    /\ probe.op = "processor" /\ ~probe.decoded
    /\ probe' = [probe EXCEPT !.decoded = TRUE,
                              !.back = Processor_UnmarshalJSON(probe.stored)]
    /\ UNCHANGED monitorVars

NextCopier ==
    \/ RoundTrip
    \/ CopyGiven
    \/ CopyBack
    \/ DecodeStored
    \/ DecodeProcessor

SpecCopier == InitCopier /\ [][NextCopier]_vars

(***************************************************************************)
(* The configuration file (monitor.go).  A monitor that has a config path  *)
(* came from Init, so its MaxJobs and NumWorkers are the values Init       *)
(* leaves; Processors gives, for each name, "-" for no watcher or the      *)
(* Processor of the watcher.  A file is absent, unreadable, not JSON       *)
(* ("garbled") or a JSON object, hand-written or written by Update.  Init  *)
(* runs in a process whose package variable Monitors is still zero.        *)
(***************************************************************************)
defaultMaxJobs == 100

Writers ==
    [MaxJobs : {1, defaultMaxJobs}, NumWorkers : 1..NumCPU,
     Processors : [DirNames -> {"-", "nil", "csv", "noexec"}]]

NoFile(kind) ==
    [kind |-> kind, MaxJobs |-> 0, NumWorkers |-> 0,
     Processors |-> [d \in DirNames |-> "-"]]

ConfigFiles ==
    {NoFile(k) : k \in {"absent", "unreadable", "garbled"}} \cup
    {[NoFile("json") EXCEPT !.MaxJobs = j, !.NumWorkers = n] :
        j \in {0, 1}, n \in {0, NumCPU + 1}}

NoReturn ==
    [called |-> FALSE, err |-> FALSE, monitor |-> FALSE, configPath |-> "",
     MaxJobs |-> 0, NumWorkers |-> 0, Processors |-> [d \in DirNames |-> "-"]]

\* json.Marshal(f) in Update: Dirs, MaxJobs and NumWorkers are written, the
\* unexported configPath is not
Marshal(f) ==
    [kind |-> "json", MaxJobs |-> f.MaxJobs, NumWorkers |-> f.NumWorkers,
     Processors |-> f.Processors]

\* the Processor field of a stored watcher: null for a nil pointer, the
\* object {Type, Executor} otherwise
StoredProcessor(p) ==
    [hasType |-> TRUE,
     Type |-> IF p = "csv" THEN ProcessorTypeCsv ELSE ProcessorTypeNull,
     Executor |-> IF p = "csv" THEN "ok" ELSE "null"]

\* json.Unmarshal(fileData, &Monitors) succeeds: the file is JSON and every
\* Processor object in it is accepted by Processor.UnmarshalJSON
Parses(file) ==
    /\ file.kind = "json"
    /\ \A d \in DirNames :
          file.Processors[d] \in {"csv", "noexec"} =>
              ~Processor_UnmarshalJSON(StoredProcessor(file.Processors[d])).err

\* Init calls Monitors.Start() although the file has not been parsed
InitStarts_BeforeParse(path, file) ==
    path # "" /\ file.kind \in {"garbled", "json"}

\* Init reaches Monitors.Start()
InitStarts(path, file) == path # "" /\ Parses(file)

\* the values Init returns
InitReturn(path, file) ==
    IF path = "" THEN [NoReturn EXCEPT !.called = TRUE, !.err = TRUE]
    ELSE IF file.kind = "absent" THEN [NoReturn EXCEPT !.called = TRUE]
    ELSE IF ~Parses(file) THEN [NoReturn EXCEPT !.called = TRUE, !.err = TRUE]
    ELSE [called |-> TRUE, err |-> FALSE, monitor |-> TRUE, configPath |-> path,
          MaxJobs |-> IF file.MaxJobs = 0 THEN defaultMaxJobs ELSE file.MaxJobs,
          NumWorkers |->
              IF file.NumWorkers = 0
              THEN (IF NumCPU \div 2 > 1 THEN NumCPU \div 2 ELSE 1)
              ELSE IF file.NumWorkers > NumCPU THEN NumCPU ELSE file.NumWorkers,
          Processors |-> file.Processors]

InitConfig ==
    /\ MonitorInit
    /\ probe \in [op : {"config"}, writer : Writers, path : {"", "p"},
                  file : ConfigFiles, updated : {FALSE}, ret : {NoReturn}]

\* Update() of the writing monitor returns nil: the file at its config path
\* holds the monitor
UpdateOnce ==
    /\ probe.op = "config" /\ ~probe.updated /\ ~probe.ret.called
    /\ probe.path # "" /\ probe.file.kind # "unreadable"
    /\ probe' = [probe EXCEPT !.updated = TRUE, !.file = Marshal(probe.writer)]
    /\ persisted' = {d \in DirNames : probe.writer.Processors[d] # "-"}
    /\ UNCHANGED << Dirs, dir, fctx, parentDone, tasksMade, workerTasks, startPc,
                    startHeld, waiters, worker, loop, srcFS, outFS, faults, drops,
                    crashed >>

\* Init(parentCtx, logger, path) in a fresh process; when it reaches Start
\* the workers are launched and every watcher of the file is monitored
InitCall ==
    /\ probe.op = "config" /\ ~probe.ret.called
    /\ probe' = [probe EXCEPT !.ret = InitReturn(probe.path, probe.file)]
    /\ IF InitStarts(probe.path, probe.file)
       THEN LET names == {d \in DirNames : probe.file.Processors[d] # "-"}
                n == probe'.ret.NumWorkers
            IN  /\ fctx' = "live"
                /\ tasksMade' = TRUE
                /\ worker' = [w \in WorkerIds |-> IF w <= n THEN IdleWorker ELSE worker[w]]
                /\ waiters' = waiters + 1
                /\ Dirs' = names
                /\ dir' = [d \in DirNames |->
                             IF d \in names THEN Monitored(dir[d], "live") ELSE dir[d]]
                /\ loop' = [d \in DirNames |->
                              IF d \in names THEN Spawned(loop, d)[d] ELSE loop[d]]
       ELSE UNCHANGED << fctx, tasksMade, worker, waiters, Dirs, dir, loop >>
    /\ UNCHANGED << persisted, parentDone, workerTasks, startPc, startHeld, srcFS,
                    outFS, faults, drops, crashed >>

NextConfig ==
    \/ UpdateOnce
    \/ InitCall

SpecConfig == InitConfig /\ [][NextConfig]_vars

(***************************************************************************)
(* getOutFileName on the roots a watcher can be given, and GetStats on a   *)
(* mapping whose watchers have counted files.                              *)
(***************************************************************************)
\* monitored roots: absolute, relative with "./", the working directory,
\* and a relative directory whose name begins with a dot
ProbeRoots == { <<"/", "m">>, <<".", "/", "n">>, <<".">>, <<".", "n">> }

\* getOutFileName: monitorDir[0:1] and inFilePath[n:] are within range; Go panics otherwise
InRange(filePath, monitorDir) ==
    /\ Len(monitorDir) >= 1
    /\ LET n == IF monitorDir[1] = "." THEN Len(monitorDir) - 2 ELSE Len(monitorDir)
       IN  0 <= n /\ n <= Len(filePath)

CounterBits == 3      \* width of an atomic.Uint64 counter in the model

\* the values of a counter are 0..Modulus-1; arithmetic on it wraps
Modulus == 2^CounterBits

\* atomic.Uint64.Add(delta): new = old + delta modulo the width
AtomicAdd(old, delta) == (old + delta) % Modulus

\* -x on an unsigned value: the two's complement
Negate(x) == (Modulus - x) % Modulus

\* Stats.Add
Add(s, other) ==
    [TotalFiles |-> AtomicAdd(s.TotalFiles, other.TotalFiles),
     TotalBytes |-> AtomicAdd(s.TotalBytes, other.TotalBytes)]

\* a Sub that stops at 0
Sub_Saturating(s, other) ==
    [TotalFiles |-> IF s.TotalFiles >= other.TotalFiles
                    THEN s.TotalFiles - other.TotalFiles ELSE 0,
     TotalBytes |-> IF s.TotalBytes >= other.TotalBytes
                    THEN s.TotalBytes - other.TotalBytes ELSE 0]

\* Stats.Sub: s.TotalFiles.Add(-other.TotalFiles.Load()), likewise the bytes
Sub(s, other) ==
    [TotalFiles |-> AtomicAdd(s.TotalFiles, Negate(other.TotalFiles)),
     TotalBytes |-> AtomicAdd(s.TotalBytes, Negate(other.TotalBytes))]

\* Stats.Reset
Reset(s) == [TotalFiles |-> 0, TotalBytes |-> 0]

RECURSIVE AddAll(_, _, _)
AddAll(names, stats, acc) ==
    IF names = {} THEN acc
    ELSE LET d == CHOOSE x \in names : TRUE
         IN  AddAll(names \ {d}, stats, Add(acc, stats[d]))

\* GetStats that adds up every watcher that was ever built
GetStats_EveryWatcher(mapping, stats) ==
    AddAll(DirNames, stats, [TotalFiles |-> 0, TotalBytes |-> 0])

\* FileMonitor.GetStats: a zero Stats to which the Stats of every watcher of
\* the mapping is added
GetStats(mapping, stats) ==
    AddAll(mapping, stats, [TotalFiles |-> 0, TotalBytes |-> 0])

InitCalls ==
    /\ MonitorInit
    /\ \/ probe \in [op : {"path"}, root : ProbeRoots, file : FileIds,
                     dest : Destinations, called : {FALSE}, panic : {FALSE},
                     out : {<<>>}]
       \/ probe \in [op : {"stats"}, Dirs : SUBSET DirNames,
                     Stats : [DirNames -> [TotalFiles : 0..MaxCount,
                                           TotalBytes : 0..MaxCount]],
                     called : {FALSE},
                     ret : {[TotalFiles |-> 0, TotalBytes |-> 0]}]

\* a copier of a watcher monitoring root computes the destination of the
\* file readDir found under it
OutFileName ==
    /\ probe.op = "path" /\ ~probe.called
    /\ LET path == Join(probe.root, FileName(probe.file))
       IN  probe' = IF InRange(path, probe.root)
                    THEN [probe EXCEPT !.called = TRUE,
                                       !.out = getOutFileName(path, probe.root, probe.dest)]
                    ELSE [probe EXCEPT !.called = TRUE, !.panic = TRUE]
    /\ UNCHANGED monitorVars

\* a call of GetStats
GetStatsCall ==
    /\ probe.op = "stats" /\ ~probe.called
    /\ probe' = [probe EXCEPT !.called = TRUE,
                              !.ret = GetStats(probe.Dirs, probe.Stats)]
    /\ UNCHANGED monitorVars

NextCalls ==
    \/ OutFileName
    \/ GetStatsCall

SpecCalls == InitCalls /\ [][NextCalls]_vars

(***************************************************************************)
(* One pipeline on every configuration of a watcher: a started monitor     *)
(* whose worker 1 has just taken the job of a file of watcher d1, for each *)
(* list of match rules, with or without a processor, with up to two        *)
(* publishers, success copiers and error copiers, the file in the folder   *)
(* or gone.                                                                *)
(***************************************************************************)
PipeProfiles ==
    [MatchGroups : RuleLists, Processor : {"nil", "csv"}, Publishers : {0, 1, 2},
     Copiers : {0, 1, 2}, ErrorCopiers : {0, 1, 2}]

InitPipe ==
    /\ Dirs = {"d1"}
    /\ \E p \in PipeProfiles :
          dir = [d \in DirNames |->
                   IF d = "d1"
                   THEN [NewDirObject(p) EXCEPT !.Active = TRUE, !.ctx = "live"]
                   ELSE NoDirObject]
    /\ persisted = {"d1"}
    /\ fctx = "live"
    /\ parentDone = FALSE
    /\ tasksMade = TRUE
    /\ workerTasks = <<>>
    /\ startPc = "idle"
    /\ startHeld = NoJob
    /\ waiters = 1
    /\ \E f \in FileIds :
          /\ worker = [w \in WorkerIds |->
                         IF w = 1
                         THEN [pc |-> "start", job |-> [d |-> "d1", f |-> f],
                               k |-> 0, log |-> NoLog]
                         ELSE IdleWorker]
          /\ srcFS \in {{}, {<<"d1", f>>}}
    /\ loop = [d \in DirNames |-> [l \in LoopIds |->
                 IF d = "d1" /\ l = 1 THEN [pc |-> "select", pending |-> <<>>]
                 ELSE NoLoop]]
    /\ outFS = <<>>
    /\ faults = 0
    /\ drops = 0
    /\ crashed = FALSE
    /\ probe = NoProbe

\* the steps of processFiles
NextPipe ==
    \/ \E w \in WorkerIds : PipeStart(w)
    \/ \E w \in WorkerIds : PipeProcess(w)
    \/ \E w \in WorkerIds : PipePublish(w)
    \/ \E w \in WorkerIds : PipeCopy(w)
    \/ \E w \in WorkerIds : PipeDelete(w)
    \/ \E w \in WorkerIds : PipeReturn(w)

SpecPipe == InitPipe /\ [][NextPipe]_vars

(***************************************************************************)
(* C1.  Back-pressure of the job queue.                                    *)
(***************************************************************************)
\* the job a scan loop blocked in its send is submitting
Submitting(d, l) == [d |-> d, f |-> Head(loop[d][l].pending)]

\* the queue changes only by a sender appending its job at the tail or by a
\* receiver taking the job at the head into its own hands
QueueStep ==
    workerTasks' # workerTasks =>
        \/ \E d \in DirNames, l \in LoopIds :
              /\ loop[d][l].pc = "send"
              /\ workerTasks' = Append(workerTasks, Submitting(d, l))
              /\ loop'[d][l] # loop[d][l]
        \/ /\ startPc = "resend"
           /\ workerTasks' = Append(workerTasks, startHeld)
        \/ \E w \in WorkerIds :
              /\ worker[w].pc = "idle" /\ worker'[w].pc = "start"
              /\ workerTasks # <<>> /\ workerTasks' = Tail(workerTasks)
              /\ worker'[w].job = Head(workerTasks)
        \/ /\ startPc = "recv"
           /\ workerTasks # <<>> /\ workerTasks' = Tail(workerTasks)
           /\ startHeld' = Head(workerTasks)

\* a scan loop in its send moves on only by enqueuing the file it submits,
\* and does not move while the queue is full
SenderStep ==
    \A d \in DirNames, l \in LoopIds :
        (loop[d][l].pc = "send" /\ loop'[d][l] # loop[d][l]) =>
            /\ Len(workerTasks) < MaxJobs
            /\ workerTasks' = Append(workerTasks, Submitting(d, l))
            /\ loop'[d][l].pending = Tail(loop[d][l].pending)

\* C1: the queue never holds more than MaxJobs jobs; a submission on a full
\* queue blocks the submitting scan loop until a job is removed; no job is
\* dropped: every job leaves the queue into the hands of a receiver.
C1_BackPressure ==
    /\ [](Len(workerTasks) <= MaxJobs)
    /\ [][QueueStep /\ SenderStep]_vars

\* a scan loop is blocked in its send on a full queue
C1_Witness ==
    /\ Len(workerTasks) = MaxJobs
    /\ \E d \in DirNames, l \in LoopIds : loop[d][l].pc = "send"

(***************************************************************************)
(* C2.  The pipeline in which every step succeeds.                         *)
(***************************************************************************)
\* the path the k-th success copier of watcher d writes file f to
CopyPath(d, f, k) ==
    getOutFileName(inFilePath(d, f), MonitorFolder(d), DestOf(CopierDest(d), k))

\* every success copier's destination holds a copy of file f in fs
CopiesIn(fs, d, f) ==
    \A k \in 1..dir[d].Copiers :
        CopyPath(d, f, k) \in DOMAIN fs /\ fs[CopyPath(d, f, k)] = "full"

\* worker w's pipeline ends in this step with every step having succeeded
EndsOk(w) ==
    worker[w].pc = "delete" /\ worker'[w].pc = "ret" /\ worker'[w].log.outcome = "ok"

\* C2: when a pipeline in which all steps succeed ends, the source file no
\* longer exists in the monitored folder and a copy of it exists under every
\* success transport; the source is not removed before all success
\* transports have completed.
C2_AllSucceed ==
    [][\A w \in WorkerIds :
          EndsOk(w) =>
              LET d == worker[w].job.d
                  f == worker[w].job.f
              IN  /\ <<d, f>> \in srcFS /\ <<d, f>> \notin srcFS'
                  /\ worker[w].log.cops = dir[d].Copiers
                  /\ CopiesIn(outFS', d, f)]_vars

(***************************************************************************)
(* C3.  The pipeline that fails after a successful match.                  *)
(***************************************************************************)
FailedSteps == {"stat", "process", "publish", "copy", "delete"}

\* worker w's pipeline ends in this step
Ends(w) == worker[w].pc \notin {"none", "idle", "ret"} /\ worker'[w].pc = "ret"

\* C3: when a pipeline that failed at stat, process, publish, transport or
\* delete ends, the source file has been removed and every configured error
\* transport has been run on it; with no error transport the source is
\* still removed and no copy is made.
C3_ErrorDivert ==
    [][\A w \in WorkerIds :
          (Ends(w) /\ worker'[w].log.outcome \in FailedSteps) =>
              LET d == worker[w].job.d
                  f == worker[w].job.f
              IN  /\ <<d, f>> \notin srcFS'
                  /\ worker'[w].log.perr >= 1
                  /\ worker'[w].log.ecops >= dir[d].ErrorCopiers
                  /\ dir[d].ErrorCopiers = 0 => outFS' = outFS]_vars

(***************************************************************************)
(* C4.  Stats accounting.                                                  *)
(***************************************************************************)
PipePcs == {"start", "process", "publish", "copy", "delete", "ret"}

\* worker w takes a step of the pipeline it runs
PipeStep(w) == worker[w].pc \in PipePcs /\ worker'[w] # worker[w]

\* worker w's step is the head of a pipeline whose file passes matching
PassesMatch(w) ==
    /\ worker[w].pc = "start" /\ worker'[w] # worker[w]
    /\ MatchAll(dir[worker[w].job.d].MatchGroups,
                inFilePath(worker[w].job.d, worker[w].job.f)) = "accept"

Counted(d, f) ==
    /\ dir'[d].TotalFiles = dir[d].TotalFiles + 1
    /\ dir'[d].TotalBytes = dir[d].TotalBytes + FileSize(f)

NotCounted(d) ==
    /\ dir'[d].TotalFiles = dir[d].TotalFiles
    /\ dir'[d].TotalBytes = dir[d].TotalBytes

\* C4 as stated: every pipeline whose file passes matching adds exactly 1
\* to Stats.files and the file's size to Stats.bytes.
C4_CountsEveryMatch ==
    [][\A w \in WorkerIds :
          PassesMatch(w) => Counted(worker[w].job.d, worker[w].job.f)]_vars

\* C4, amended: a pipeline whose file passes matching and whose os.Stat
\* succeeds adds exactly 1 to Stats.files and the file's size to Stats.bytes
\* at that step; no later step of the pipeline, whether it succeeds or
\* fails, changes the counters again; a pipeline whose file is rejected, or
\* whose stat fails, changes neither counter.
C4_CountsEveryStat ==
    [][\A w \in WorkerIds :
          PipeStep(w) =>
              IF PassesMatch(w) /\ worker'[w].log.outcome # "stat"
              THEN /\ Counted(worker[w].job.d, worker[w].job.f)
                   /\ \A e \in DirNames \ {worker[w].job.d} : NotCounted(e)
              ELSE \A e \in DirNames : NotCounted(e)]_vars

\* a counted pipeline has ended in failure and its count stands
C4_Witness ==
    \E w \in WorkerIds :
        /\ worker[w].pc = "ret" /\ worker[w].log.counted
        /\ worker[w].log.outcome \in {"process", "publish", "copy", "delete"}
        /\ dir[worker[w].job.d].TotalFiles >= 1
        /\ dir[worker[w].job.d].TotalBytes >= FileSize(worker[w].job.f)

(***************************************************************************)
(* C5.  Acceptance by an ordered list of match rules.                      *)
(***************************************************************************)
\* path matches the rule's expression; an expression that is no regular
\* expression matches nothing
PathMatches(r, path) == CompileOK(r.Expression) /\ MatchString(r.Expression, path)

\* C5 as stated: a path is accepted iff for every rule of the list
\* (path matches the expression) # Exclude; the empty list accepts.
C5_AcceptIffAllSatisfied ==
    probe.result # "-" =>
        (probe.result = "accept" <=>
            \A i \in DOMAIN probe.rules :
                PathMatches(probe.rules[i], probe.path) # probe.rules[i].Exclude)

\* C5, amended: a path is accepted iff for every rule of the list the
\* expression compiles and (path matches the expression) # Exclude; the
\* empty list accepts every path; the list <<foo, not bar>> accepts exactly
\* the paths that contain foo and do not contain bar.
C5_AcceptIffAllCompileAndSatisfied ==
    probe.result # "-" =>
        /\ probe.result = "accept" <=>
              \A i \in DOMAIN probe.rules :
                  /\ CompileOK(probe.rules[i].Expression)
                  /\ MatchString(probe.rules[i].Expression, probe.path)
                        # probe.rules[i].Exclude
        /\ probe.rules = <<>> => probe.result = "accept"
        /\ probe.rules = FooNotBar =>
              (probe.result = "accept" <=>
                  MatchString(S_foo, probe.path) /\ ~MatchString(S_bar, probe.path))

\* the list <<foo, not bar>> has been evaluated and has accepted a path
C5_Witness == probe.rules = FooNotBar /\ probe.result = "accept"

(***************************************************************************)
(* C6.  A file no rule list accepts is left alone.                         *)
(***************************************************************************)
\* the rules of watcher d compile and one of them is not satisfied by the
\* path of file f
Rejects(d, f) ==
    LET rules == dir[d].MatchGroups
    IN  /\ dir[d].built
        /\ \A i \in DOMAIN rules : CompileOK(rules[i].Expression)
        /\ \E i \in DOMAIN rules :
              MatchString(rules[i].Expression, inFilePath(d, f)) = rules[i].Exclude

\* the paths the success and error copiers of watcher d would write f to
OutPaths(d, f) ==
    { getOutFileName(inFilePath(d, f), MonitorFolder(d), DestOf(base, k)) :
        base \in {CopierDest(d), ErrorDest(d)}, k \in 1..2 }

\* C6: a file rejected by the match rules stays at its path, is not
\* published, copied, error-copied or counted, and its pipeline ends without
\* an error, however many scan ticks submit it.
C6_RejectedUntouched ==
    /\ [](\A d \in DirNames, f \in FileIds :
             Rejects(d, f) => OutPaths(d, f) \cap DOMAIN outFS = {})
    /\ [][/\ \A d \in DirNames, f \in FileIds :
               (Rejects(d, f) /\ <<d, f>> \in srcFS) => <<d, f>> \in srcFS'
          /\ \A w \in WorkerIds :
               (PipeStep(w) /\ worker[w].pc # "ret"
                    /\ Rejects(worker[w].job.d, worker[w].job.f)) =>
                   /\ worker[w].pc = "start" /\ worker'[w].pc = "ret"
                   /\ worker'[w].log = [NoLog EXCEPT !.outcome = "reject"]
                   /\ srcFS' = srcFS /\ outFS' = outFS /\ dir' = dir
                   /\ faults' = faults]_vars

\* a pipeline has rejected a file, the file is in place and a later scan
\* has submitted it again
C6_Witness ==
    \E w \in WorkerIds :
        /\ worker[w].pc = "ret" /\ worker[w].log.outcome = "reject"
        /\ <<worker[w].job.d, worker[w].job.f>> \in srcFS
        /\ \E i \in DOMAIN workerTasks : workerTasks[i] = worker[w].job

(***************************************************************************)
(* C7.  A failing job does not stop the pool.                              *)
(***************************************************************************)
\* the worker goroutines that run: none once the process has terminated
RunningWorkers == IF crashed THEN {} ELSE LiveWorkers

\* C7: until cancellation fires, the number of live worker loops stays
\* equal to NumWorkers whatever any job does, the job of a watcher whose
\* Processor has no Executor included.
C7_PoolKeepsWorkers ==
    (fctx = "live" /\ tasksMade /\ startPc = "idle") =>
        Cardinality(RunningWorkers) = NumWorkers

(***************************************************************************)
(* C8.  Workers after the root scope is cancelled.                         *)
(***************************************************************************)
\* C8 as stated, its bound on the work done after cancellation: once the
\* root scope is cancelled a worker finishes at most the job it is running,
\* so a worker that is idle takes no job.
C8_AtMostCurrentJob ==
    [][\A w \in WorkerIds :
          (parentDone /\ worker[w].pc = "idle") => worker'[w].pc # "start"]_vars

\* C8, amended: after the root scope is cancelled every worker loop
\* eventually exits, and Connected() is false from the cancellation on, a
\* later Start included.
C8_WorkersExit ==
    /\ parentDone ~> (crashed \/ LiveWorkers = {})
    /\ [](parentDone => ~Connected)

\* the root scope is cancelled, workers were running, all have exited
C8_Witness ==
    parentDone /\ tasksMade /\ fctx = "done" /\ LiveWorkers = {} /\ ~crashed

(***************************************************************************)
(* C9.  A scan loop after its cancellation handle has fired.               *)
(***************************************************************************)
\* a goroutine exists that can take a job out of the queue
ReceiverExists == LiveWorkers # {} \/ startPc = "recv"

\* C9, for the loop blocked submitting a job: in every reachable state in
\* which the watcher's handle has fired and its scan loop is blocked in the
\* send, the loop can still come to its end: the queue has room or a
\* receiver exists that will make room.
C9_CancelledLoopCanStop ==
    \A d \in DirNames, l \in LoopIds :
        (dir[d].ctx = "done" /\ loop[d][l].pc = "send" /\ ~crashed) =>
            (Len(workerTasks) < MaxJobs \/ ReceiverExists)

(***************************************************************************)
(* C10.  RemoveDir.                                                        *)
(***************************************************************************)
\* C10: once RemoveDir has returned for a watcher the Monitor had started
\* (its name is absent from the mapping and from the rewritten
\* configuration), the watcher's cancellation has fired, whether or not its
\* scan loop had set Active when RemoveDir was called.
C10_RemovedIsCancelled ==
    \A d \in DirNames :
        (d \notin Dirs /\ d \notin persisted /\ dir[d].ctx # "nil") =>
            dir[d].ctx = "done"

(***************************************************************************)
(* C11.  A name that is already registered.                                *)
(***************************************************************************)
\* C11: no operation replaces a registered watcher by another watcher of
\* the same name: while a name stays in the mapping it stands for the
\* watcher object that was registered under it.
C11_RegisteredStays ==
    [][\A d \in DirNames :
          (d \in Dirs /\ d \in Dirs') => dir'[d].obj = dir[d].obj]_vars

(***************************************************************************)
(* C12.  The configuration file and the mapping.                           *)
(***************************************************************************)
\* C12: whenever no call is in progress, the watcher names of the persisted
\* configuration are the watcher names of the mapping, also after a call
\* whose configuration write failed.
C12_ConfigInSync ==
    (~crashed /\ startPc = "idle") => persisted = Dirs

(***************************************************************************)
(* C13.  The configuration written by Update and loaded by Init.           *)
(***************************************************************************)
\* C13: after Update() has succeeded on a monitor, loading a monitor from
\* the same configuration path yields a monitor with the configPath,
\* MaxJobs, NumWorkers, number of watchers and watcher names of the monitor
\* that wrote the file.
C13_ConfigRoundTrip ==
    (probe.op = "config" /\ probe.updated /\ probe.ret.called) =>
        /\ ~probe.ret.err /\ probe.ret.monitor
        /\ probe.ret.configPath = probe.path
        /\ probe.ret.MaxJobs = probe.writer.MaxJobs
        /\ probe.ret.NumWorkers = probe.writer.NumWorkers
        /\ {d \in DirNames : probe.ret.Processors[d] # "-"}
             = {d \in DirNames : probe.writer.Processors[d] # "-"}

(***************************************************************************)
(* C16.  The destination path of a copy.                                   *)
(***************************************************************************)
\* C16: for every monitored root, absolute or relative and beginning with
\* ".", and every file under it, getOutFileName runs to its end and returns
\* the destination root joined with the path of the file relative to the
\* monitored root.
C16_DestinationIsRelativePath ==
    (probe.op = "path" /\ probe.called) =>
        /\ ~probe.panic
        /\ probe.out = Join(probe.dest, FileName(probe.file))

(***************************************************************************)
(* C17.  Init on a path that yields no monitor.                            *)
(***************************************************************************)
NothingStarted ==
    /\ fctx = "nil" /\ ~tasksMade
    /\ LiveWorkers = {}
    /\ \A d \in DirNames : LiveLoops(d) = {}

\* C17: Init returns an error and no monitor when the path is empty or the
\* file cannot be opened or parsed, and neither a monitor nor an error when
\* the file does not exist; in each of these cases no worker and no scan
\* loop has been started.
C17_NoMonitorNothingStarted ==
    (probe.op = "config" /\ probe.ret.called) =>
        /\ (probe.path = "" \/ probe.file.kind \in {"unreadable", "garbled"}) =>
              probe.ret.err /\ ~probe.ret.monitor /\ NothingStarted
        /\ (probe.path # "" /\ probe.file.kind = "absent") =>
              ~probe.ret.err /\ ~probe.ret.monitor /\ NothingStarted

\* Init has returned for a file that is not JSON
C17_Witness ==
    /\ probe.op = "config" /\ probe.ret.called
    /\ probe.path # "" /\ probe.file.kind = "garbled"

(***************************************************************************)
(* C14.  A transport written and read back.                                *)
(***************************************************************************)
\* C14: a configured transport (Local or FTP) that is written with
\* MarshalJSON and read back through CopierAlias.UnmarshalJSON and GetCopier
\* is a transport of the same variant, and its Copy of a file has the
\* outcome (success or the same failure) of the original's Copy of it.
C14_RoundTripSameCopy ==
    (probe.op = "copier" /\ probe.decoded) =>
        /\ ~probe.back.err
        /\ probe.back.copier.variant = probe.given.variant
        /\ (probe.outGiven # NoOutcome /\ probe.outBack # NoOutcome) =>
              probe.outBack = probe.outGiven

(***************************************************************************)
(* C15.  The type discriminator of a stored transport or processor.        *)
(***************************************************************************)
DefinedCopierType(stored) ==
    stored.hasType /\ stored.Type \in {CopierTypeLocal, CopierTypeFTP}

DefinedProcessorType(stored) == stored.hasType /\ stored.Type = ProcessorTypeCsv

VariantOfType(stored) == IF stored.Type = CopierTypeLocal THEN "Local" ELSE "Ftp"

\* C15 as stated: reading a stored transport or processor fails and yields
\* no variant when the discriminator is missing, 0 or not a defined variant,
\* and succeeds with the matching variant in every other case.
C15_DiscriminatorDecides ==
    /\ (probe.op = "stored" /\ probe.decoded) =>
          IF DefinedCopierType(probe.stored)
          THEN ~probe.back.err /\ probe.back.copier.variant = VariantOfType(probe.stored)
          ELSE probe.back.err /\ probe.back.copier = NilCopier
    /\ (probe.op = "processor" /\ probe.decoded) =>
          IF DefinedProcessorType(probe.stored)
          THEN ~probe.back.err /\ probe.back.Executor = "csv"
          ELSE probe.back.err /\ probe.back.Executor = "nil"

\* C15, amended: with a missing, 0 or undefined discriminator the read fails
\* and yields no variant; with a defined one it yields the matching variant,
\* without an error exactly when the rest of the object decodes into that
\* variant (fields of the struct's JSON types; for a Csv processor an
\* Executor that is present).
C15_DiscriminatorAndPayload ==
    /\ (probe.op = "stored" /\ probe.decoded) =>
          IF DefinedCopierType(probe.stored)
          THEN /\ probe.back.copier.variant = VariantOfType(probe.stored)
               /\ probe.back.err <=> probe.stored.payload = "bad"
          ELSE probe.back.err /\ probe.back.copier = NilCopier
    /\ (probe.op = "processor" /\ probe.decoded) =>
          IF DefinedProcessorType(probe.stored)
          THEN /\ probe.back.Executor = "csv"
               /\ probe.back.err <=> probe.stored.Executor \in {"absent", "bad"}
          ELSE probe.back.err /\ probe.back.Executor = "nil"

\* a stored transport whose discriminator is the null value has been read
C15_Witness ==
    /\ probe.op = "stored" /\ probe.decoded
    /\ probe.stored.hasType /\ probe.stored.Type = CopierTypeNull
    /\ probe.stored.payload = "ok"
    /\ probe.back.err

(***************************************************************************)
(* C18.  The monitor-level statistics.                                     *)
(***************************************************************************)
\* what watcher d adds to the monitor-level view
Share(d) ==
    IF d \in probe.Dirs THEN probe.Stats[d] ELSE [TotalFiles |-> 0, TotalBytes |-> 0]

\* C18: GetStats returns, for files and for bytes, the sum of the counters
\* of exactly the watchers that are in the mapping, and the call changes no
\* watcher's Stats.
C18_SumOfMappedWatchers ==
    [][(probe.op = "stats" /\ ~probe.called /\ probe'.called) =>
          /\ probe'.ret.TotalFiles = Share("d1").TotalFiles + Share("d2").TotalFiles
          /\ probe'.ret.TotalBytes = Share("d1").TotalBytes + Share("d2").TotalBytes
          /\ probe'.Stats = probe.Stats /\ probe'.Dirs = probe.Dirs]_vars

\* GetStats has returned on a mapping that holds one watcher, while a
\* watcher outside of the mapping has counted files too
C18_Witness ==
    /\ probe.op = "stats" /\ probe.called
    /\ probe.Dirs = {"d1"}
    /\ probe.Stats["d1"].TotalFiles > 0 /\ probe.Stats["d2"].TotalFiles > 0
    /\ probe.ret.TotalFiles = probe.Stats["d1"].TotalFiles

(***************************************************************************)
(* C19.  An FTP transport without its encryption or decryption function.   *)
(***************************************************************************)
\* C19: the Copy of an FTP transport whose encryption function or whose
\* decryption function is absent returns the configuration error, opens no
\* connection and leaves the destination alone.
C19_NoFunctionNoConnection ==
    ( /\ probe.op = "copier" /\ probe.given.variant = "Ftp"
      /\ ~probe.given.EncryptionFunc \/ ~probe.given.DecryptionFunc
      /\ probe.outGiven # NoOutcome ) =>
        /\ probe.outGiven.err = "config"
        /\ ~probe.outGiven.dialed
        /\ probe.outGiven.wrote = <<>>

\* Copy has returned for a transport that has the encryption function only,
\* with a server that would have taken the file
C19_Witness ==
    /\ probe.op = "copier" /\ probe.given.variant = "Ftp"
    /\ probe.given.EncryptionFunc /\ ~probe.given.DecryptionFunc
    /\ probe.fail = "never"
    /\ probe.outGiven # NoOutcome

(***************************************************************************)
(* C20.  A publisher that fails.                                           *)
(***************************************************************************)
\* the publisher worker w calls returns an error
PublishFails(w) ==
    /\ worker[w].pc = "publish"
    /\ worker[w].log.outcome # "publish" /\ worker'[w].log.outcome = "publish"

\* C20: when a publisher fails for a file, error-divert is invoked (every
\* error transport is run on the file) and the pipeline stops: no later
\* publisher and no success transport is invoked for the file.
C20_PublishFailureDiverts ==
    [][\A w \in WorkerIds :
          PublishFails(w) =>
              /\ worker'[w].log.perr = worker[w].log.perr + 1
              /\ worker'[w].log.ecops
                   = worker[w].log.ecops + dir[worker[w].job.d].ErrorCopiers
              /\ worker'[w].pc \notin {"publish", "copy"}]_vars

(***************************************************************************)
(* C21.  Error transports in a pipeline without a failure.                 *)
(***************************************************************************)
\* C21: in a pipeline where stat, process, every publish, every success
\* transport and the delete all succeed, no error transport is invoked,
\* for any number of configured publishers.
C21_NoDivertWithoutFailure ==
    \A w \in WorkerIds :
        (worker[w].pc = "ret" /\ worker[w].log.outcome = "ok") =>
            worker[w].log.perr = 0 /\ worker[w].log.ecops = 0

(***************************************************************************)
(* C22.  The delete step.                                                  *)
(***************************************************************************)
\* C22: the pipeline of every file that passed matching ends with the
\* delete step, whichever later step succeeded or failed, the stat step
\* included; and when the deletion fails error-divert is invoked.
C22_DeleteAlwaysRuns ==
    [][\A w \in WorkerIds :
          (Ends(w) /\ worker'[w].log.outcome \notin {"reject", "matcherr"}) =>
              /\ worker[w].pc = "delete"
              /\ ~worker'[w].log.removed =>
                    worker'[w].log.perr = worker[w].log.perr + 1]_vars

(***************************************************************************)
(* C23.  The success transports.                                           *)
(***************************************************************************)
\* worker w calls the success transport it has come to
CopyStep(w) == worker[w].pc = "copy" /\ worker'[w] # worker[w]

BadRuleReached(d, f) ==
    LET rules == dir[d].MatchGroups
    IN  \E i \in DOMAIN rules :
           /\ ~CompileOK(rules[i].Expression)
           /\ \A j \in 1..(i - 1) :
                 /\ CompileOK(rules[j].Expression)
                 /\ MatchString(rules[j].Expression, inFilePath(d, f)) # rules[j].Exclude

\* C24: when a match rule that is reached before a rule the path does not
\* satisfy fails to compile, the file is skipped: the pipeline ends at
\* once, the file is not deleted, the Stats are unchanged, no processor,
\* publisher or success transport runs and no error transport is invoked.
C24_InvalidRuleSkips ==
    [][\A w \in WorkerIds :
          ( /\ worker[w].pc = "start" /\ worker'[w] # worker[w]
            /\ BadRuleReached(worker[w].job.d, worker[w].job.f) ) =>
              /\ worker'[w].pc = "ret"
              /\ worker'[w].log = [NoLog EXCEPT !.outcome = "matcherr"]
              /\ srcFS' = srcFS /\ outFS' = outFS /\ dir' = dir]_vars

\* a file has been skipped whose path satisfies the first rule of its
\* watcher and whose second rule does not compile
C24_Witness ==
    \E w \in WorkerIds :
        LET d == worker[w].job.d
        IN  /\ worker[w].pc = "ret" /\ worker[w].log.outcome = "matcherr"
            /\ Len(dir[d].MatchGroups) = 2
            /\ CompileOK(dir[d].MatchGroups[1].Expression)
            /\ <<d, worker[w].job.f>> \in srcFS

(***************************************************************************)
(* C25.  Error-divert.                                                     *)
(***************************************************************************)
\* worker w's step calls processError
Diverts(w) ==
    worker'[w].pc # "idle" /\ worker'[w].log.perr = worker[w].log.perr + 1

\* C25: processError runs every configured error transport on the file,
\* also after one of them failed (all of them fail when the source is
\* gone); it returns nil if and only if none failed, the failure when one
\* failed and one error for all of them when several failed; and the worker
\* goes on with its pipeline.
C25_DivertRunsAllAndReports ==
    [][\A w \in WorkerIds :
          Diverts(w) =>
              LET d == worker[w].job.d
                  log == worker'[w].log
              IN  /\ log.ecops = worker[w].log.ecops + dir[d].ErrorCopiers
                  /\ log.failed <= dir[d].ErrorCopiers
                  /\ <<d, worker[w].job.f>> \notin srcFS => log.failed = dir[d].ErrorCopiers
                  /\ log.ret = "nil" <=> log.failed = 0
                  /\ log.failed = 1 => log.ret = "one"
                  /\ log.failed > 1 => log.ret = "all"
                  /\ worker'[w].pc \in {"publish", "copy", "delete", "ret"}
                  /\ ~crashed']_vars

\* processError has returned one error for two error transports that failed
C25_Witness ==
    \E w \in WorkerIds :
        /\ worker[w].log.perr >= 1
        /\ dir[worker[w].job.d].ErrorCopiers = 2
        /\ worker[w].log.failed = 2 /\ worker[w].log.ret = "all"
        /\ worker[w].log.ecops >= 2

(***************************************************************************)
(* C26.  The size of the worker pool over Start calls and cancellations.   *)
(***************************************************************************)
\* C26: after any sequence of Start calls and cancellations the number of
\* live worker loops never exceeds NumWorkers, and it equals NumWorkers
\* while the pool is running (f.ctx live, no Start under way).
C26_PoolNeverExceeds ==
    /\ Cardinality(RunningWorkers) <= NumWorkers
    /\ (~crashed /\ fctx = "live" /\ tasksMade /\ startPc = "idle") =>
           Cardinality(RunningWorkers) = NumWorkers

(***************************************************************************)
(* The pool of one FileMonitor with its configured sizes: startWorkers,    *)
(* worker and the package-level Init, which loads MaxJobs from the         *)
(* configuration file into the global Monitors, replaces ctxParent and     *)
(* calls Start.  probe is the FileMonitor: MaxJobs the configured field,   *)
(* cap the capacity of the channel f.workerTasks (0: the channel is nil),  *)
(* queued the jobs buffered in it, live the worker goroutines that have    *)
(* not returned, said the last message startWorkers logged.                *)
(***************************************************************************)
MaxCapacity == 2      \* largest MaxJobs a configuration file holds

PoolNew(mj) ==
    [MaxJobs |-> mj, ctxParent |-> "live", ctx |-> "nil", cap |-> 0, queued |-> 0,
     live |-> 0, waiters |-> 0, pc |-> "idle", said |-> "-"]

\* f.workerWg.Add(NumWorkers); go f.worker() NumWorkers times; go func() {
\* f.workerWg.Wait(); f.ctxCancel() }()
PoolLaunch(f) ==
    [f EXCEPT !.live = @ + NumWorkers, !.waiters = @ + 1, !.pc = "idle",
              !.said = "started all workers"]

\* startWorkers up to the launch or to the receive that samples the channel
startWorkers(f) ==
    IF f.ctx = "live"
    THEN [f EXCEPT !.said = "workers already running"]
    ELSE LET g == [f EXCEPT !.ctx = f.ctxParent]
         IN  IF f.cap = 0
             THEN PoolLaunch([g EXCEPT !.cap = f.MaxJobs])
             ELSE [g EXCEPT !.pc = "recv", !.said = "starting workers"]

\* what the model needs to run startWorkers to its end: goroutine slots
PoolFits ==
    /\ probe.live + NumWorkers <= MaxWorkerSlots
    /\ probe.waiters < MaxWaiters

InitPool ==
    /\ MonitorInit
    /\ probe \in {PoolNew(mj) : mj \in 1..MaxCapacity}

\* FileMonitor.Start(): the pool part
PoolStart ==
    /\ probe.pc = "idle" /\ PoolFits
    /\ probe' = startWorkers(probe)
    /\ probe' # probe
    /\ UNCHANGED monitorVars

\* Init(parentCtx, logger, configPath) on the global Monitors: MaxJobs is
\* read from the file, ctxParent is replaced by a live scope, Start is called
PoolInit(mj) ==
    /\ probe.pc = "idle" /\ PoolFits
    /\ probe' = startWorkers([probe EXCEPT !.MaxJobs = mj, !.ctxParent = "live"])
    /\ probe' # probe
    /\ UNCHANGED monitorVars

\* task, ok := <-f.workerTasks in startWorkers: blocks while the channel is
\* empty; the channel is never closed, so ok is true
PoolRecv ==
    /\ probe.pc = "recv" /\ probe.queued > 0
    /\ probe' = [probe EXCEPT !.queued = @ - 1, !.pc = "resend"]
    /\ UNCHANGED monitorVars

\* f.workerTasks <- task: blocks while the channel is full; the workers are
\* launched on the channel the monitor had
PoolResend ==
    /\ probe.pc = "resend" /\ probe.queued < probe.cap
    /\ probe' = PoolLaunch([probe EXCEPT !.queued = @ + 1])
    /\ UNCHANGED monitorVars

\* a scan loop submits a job
PoolSubmit ==
    /\ probe.cap > 0 /\ probe.queued < probe.cap
    /\ probe' = [probe EXCEPT !.queued = @ + 1]
    /\ UNCHANGED monitorVars

\* a worker receives a job and runs it
PoolTake ==
    /\ probe.live > 0 /\ probe.queued > 0
    /\ probe' = [probe EXCEPT !.queued = @ - 1]
    /\ UNCHANGED monitorVars

\* a worker's select chooses <-f.ctx.Done(): the worker returns
PoolWorkerExit ==
    /\ probe.live > 0 /\ probe.ctx = "done"
    /\ probe' = [probe EXCEPT !.live = @ - 1]
    /\ UNCHANGED monitorVars

\* a goroutine "f.workerWg.Wait(); f.ctxCancel()" comes to its end
PoolWaiterFire ==
    /\ probe.waiters > 0 /\ probe.live = 0
    /\ probe' = [probe EXCEPT !.waiters = @ - 1, !.ctx = "done"]
    /\ UNCHANGED monitorVars

\* the owner of f.ctxParent cancels it: the stop of the pool
PoolCancel ==
    /\ probe.ctxParent = "live"
    /\ probe' = [probe EXCEPT !.ctxParent = "done",
                              !.ctx = IF @ = "nil" THEN "nil" ELSE "done"]
    /\ UNCHANGED monitorVars

NextPool ==
    \/ PoolStart
    \/ \E mj \in 1..MaxCapacity : PoolInit(mj)
    \/ PoolRecv
    \/ PoolResend
    \/ PoolSubmit
    \/ PoolTake
    \/ PoolWorkerExit
    \/ PoolWaiterFire
    \/ PoolCancel

SpecPool == InitPool /\ [][NextPool]_vars

(***************************************************************************)
(* C27.  The capacity of the job queue after a (re)start.                  *)
(***************************************************************************)
\* a step in which startWorkers launches the workers of a new epoch
PoolLaunches == probe'.live > probe.live

\* C27: every Start that (re)initializes the pool leaves it with a job
\* queue whose capacity equals the MaxJobs configured at that moment, a
\* MaxJobs changed between a stop and the restart included; in every other
\* step the capacity of the queue does not change.
C27_CapacityIsMaxJobs ==
    [][/\ PoolLaunches => probe'.cap = probe'.MaxJobs
       /\ ~PoolLaunches => probe'.cap = probe.cap]_vars

(***************************************************************************)
(* C28.  Cancellation and removal while a pipeline runs.                   *)
(***************************************************************************)
\* worker w has started a file's pipeline and has not come to its end
MidPipeline(w) == worker[w].pc \in {"start", "process", "publish", "copy", "delete"}

\* the root scope is cancelled, the pool's own cancellation fires, or a
\* watcher is removed (which cancels it when it is Active)
CancelOrRemove == CancelRoot \/ WaiterFire \/ \E d \in DirNames : RemoveDir(d)

\* C28: cancellation is observed only between jobs: a cancellation of the
\* root scope or of a watcher, or the removal of a watcher, while a worker
\* is inside a file's pipeline leaves that pipeline where it is, with its
\* job, in a process that goes on running it to its end; no pipeline is
\* abandoned mid-way.
C28_PipelineNotAbandoned ==
    [][\A w \in WorkerIds :
          (MidPipeline(w) /\ CancelOrRemove) =>
              (worker'[w] = worker[w] /\ ~crashed')]_vars

(***************************************************************************)
(* C29.  The Active flag and the scan loop.                                *)
(***************************************************************************)
\* a scan loop of watcher d has started (it has executed d.Active = true)
\* and has not returned
LoopExecuting(d) == \E l \in LoopIds : loop[d][l].pc \notin {"none", "spawned"}

\* C29: in every reachable state a watcher whose Active flag is true has a
\* scan loop that has started and has not yet returned, a watcher just
\* built by NewDir on a monitor that is not running included.
C29_ActiveOnlyWhileLooping ==
    \A d \in DirNames : dir[d].Active => LoopExecuting(d)

(***************************************************************************)
(* C30.  The Active flag and the cancellation handle.                      *)
(***************************************************************************)
\* C30: in every reachable state a watcher whose Active flag is true has a
\* non-nil cancellation handle, so that the handle RemoveDir invokes on an
\* Active watcher is never nil.
C30_ActiveHasHandle ==
    \A d \in DirNames : dir[d].Active => dir[d].ctx # "nil"

(***************************************************************************)
(* Concurrent callers of AddDir, RemoveDir, NewDir and Update on one       *)
(* FileMonitor.  probe.Dirs is the mapping f.Dirs (its names), probe.file  *)
(* the names in the configuration file, probe.call the position of each    *)
(* caller in its call: Update marshals f before it takes configLock and    *)
(* writes under the lock, so a call is the assignment to the mapping, the  *)
(* json.Marshal and the locked os.WriteFile, in this order.                *)
(***************************************************************************)
MaxCallers == 2       \* goroutines that call the monitor at once

CallerIds == 1..MaxCallers

Calls ==
    [op : {"AddDir", "RemoveDir", "NewDir", "Update"}, d : DirNames,
     pc : {"called"}, snap : {{}}, ret : {"-"}]

InitUpdate ==
    /\ MonitorInit
    /\ \E m \in SUBSET DirNames :
          probe \in [Dirs : {m}, file : {m}, call : [CallerIds -> Calls]]

\* the statements of the call before f.Update(): f.Dirs[dir.Name] = dir,
\* delete(f.Dirs, dir.Name), or NewDir's look-up and assignment
CallAssign(c) ==
    LET k == probe.call[c]
    IN  /\ k.pc = "called"
        /\ probe' =
             IF k.op = "NewDir" /\ k.d \in probe.Dirs
             THEN [probe EXCEPT !.call[c].pc = "returned", !.call[c].ret = "exists"]
             ELSE [probe EXCEPT !.call[c].pc = "marshal",
                                !.Dirs = IF k.op = "RemoveDir" THEN @ \ {k.d}
                                         ELSE IF k.op = "Update" THEN @
                                         ELSE @ \cup {k.d}]
        /\ UNCHANGED monitorVars

\* data, err := json.Marshal(f): outside the lock
CallMarshal(c) ==
    /\ probe.call[c].pc = "marshal"
    /\ probe' = [probe EXCEPT !.call[c].pc = "write", !.call[c].snap = probe.Dirs]
    /\ UNCHANGED monitorVars

\* f.configLock.Lock(); os.WriteFile(f.configPath, data, ...); Unlock
CallWrite(c) ==
    /\ probe.call[c].pc = "write"
    /\ \/ probe' = [probe EXCEPT !.file = probe.call[c].snap,
                                 !.call[c].pc = "returned", !.call[c].ret = "nil"]
       \/ probe' = [probe EXCEPT !.call[c].pc = "returned", !.call[c].ret = "err"]
    /\ UNCHANGED monitorVars

NextUpdate ==
    \E c \in CallerIds :
        \/ CallAssign(c)
        \/ CallMarshal(c)
        \/ CallWrite(c)

SpecUpdate == InitUpdate /\ [][NextUpdate]_vars

(***************************************************************************)
(* C31.  Concurrent configuration writes.                                  *)
(***************************************************************************)
\* C31: when AddDir, RemoveDir, NewDir and Update run concurrently, once
\* all calls have returned without a write error the persisted
\* configuration describes the final in-memory watcher mapping.
C31_PersistedIsFinalMapping ==
    (\A c \in CallerIds :
        probe.call[c].pc = "returned" /\ probe.call[c].ret # "err")
        => probe.file = probe.Dirs

(***************************************************************************)
(* C32.  The counters of a watcher over the life of the monitor.           *)
(***************************************************************************)
\* C32: no operation of the monitor or of a watcher (Start, the restart of
\* a watcher's scan loop by Monitor(), AddDir, RemoveDir, a pipeline) lowers
\* the files or bytes counter of a watcher object; NewDir, which builds a
\* new object under the name, is not a step on the old one.
C32_StatsNeverDecrease ==
    [][\A d \in DirNames :
          ~NewDir(d) =>
              /\ dir'[d].TotalFiles >= dir[d].TotalFiles
              /\ dir'[d].TotalBytes >= dir[d].TotalBytes]_vars

(***************************************************************************)
(* One watcher's scan of a directory tree: Dir.readDir and the ticker case *)
(* of Dir.monitor.  The tree is the monitored root with the directories a  *)
(* and b in it and the directory c in a.  probe.exists are the directories *)
(* that exist, probe.files the number of files in each, probe.fail what    *)
(* the file system refuses on each (os.ReadDir of it, or os.Remove of it), *)
(* probe.jobs, probe.removed and probe.err what the last scan submitted,   *)
(* deleted and returned.                                                   *)
(***************************************************************************)
MaxFiles == 1         \* files in one directory of the tree

TreeDirs == {"root", "a", "b", "a/c"}

\* the directories in a directory, in the order os.ReadDir lists them
SubDirs(p) == IF p = "root" THEN <<"a", "b">> ELSE IF p = "a" THEN <<"a/c">> ELSE <<>>

ParentDir(p) == IF p = "a/c" THEN "a" ELSE "root"

NoScan == [jobs |-> {}, removed |-> {}, err |-> "nil"]

RECURSIVE readDir(_, _, _)
RECURSIVE readEntries_StopOnError(_, _)
RECURSIVE readEntries(_, _)

\* the loop over the entries with "if err := d.readDir(...); err != nil {
\* return err }" in place of "_ = d.readDir(...)"
readEntries_StopOnError(fs, kids) ==
    IF kids = <<>> THEN NoScan
    ELSE LET first == readDir(fs, Head(kids), FALSE)
             rest  == readEntries_StopOnError(fs, Tail(kids))
         IN  IF first.err # "nil" THEN first
             ELSE [jobs |-> first.jobs \cup rest.jobs,
                   removed |-> first.removed \cup rest.removed, err |-> rest.err]

\* the loop over the entries that are directories: _ = d.readDir(sub, false)
readEntries(fs, kids) ==
    IF kids = <<>> THEN NoScan
    ELSE LET first == readDir(fs, Head(kids), FALSE)
             rest  == readEntries(fs, Tail(kids))
         IN  [jobs |-> first.jobs \cup rest.jobs,
              removed |-> first.removed \cup rest.removed, err |-> "nil"]

\* Dir.readDir(dir, root)
readDir(fs, p, root) ==
    LET kids == SelectSeq(SubDirs(p), LAMBDA q : q \in fs.exists)
    IN  IF fs.fail[p] = "read" THEN [NoScan EXCEPT !.err = "read"]
        ELSE IF kids = <<>> /\ fs.files[p] = 0
        THEN IF root \/ ~fs.KeepEmptyDirs THEN NoScan
             ELSE IF fs.fail[p] = "remove" THEN [NoScan EXCEPT !.err = "remove"]
             ELSE [NoScan EXCEPT !.removed = {p}]
        ELSE LET sub == readEntries(fs, kids)
             IN  IF sub.err # "nil" THEN sub
                 ELSE [sub EXCEPT !.jobs = @ \cup {<<p, i>> : i \in 1..fs.files[p]}]

Trees ==
    {fs \in [exists : SUBSET TreeDirs, files : [TreeDirs -> 0..MaxFiles],
             fail : [TreeDirs -> {"none", "read", "remove"}],
             KeepEmptyDirs : BOOLEAN, pc : {"select"}, jobs : {{}},
             removed : {{}}, err : {"-"}] :
        /\ "root" \in fs.exists
        /\ \A q \in fs.exists \ {"root"} : ParentDir(q) \in fs.exists
        /\ \A q \in TreeDirs \ fs.exists : fs.files[q] = 0 /\ fs.fail[q] = "none"}

InitScan ==
    /\ MonitorInit
    /\ probe \in Trees

\* case <-ticker.C of Dir.monitor: one scan of the tree; after an error
\* the loop continues with its select
ScanTick ==
    /\ probe.pc = "select"
    /\ LET r == readDir(probe, "root", TRUE)
       IN  probe' = [probe EXCEPT !.exists = @ \ r.removed, !.jobs = r.jobs,
                                  !.removed = r.removed, !.err = r.err,
                                  !.pc = "select"]
    /\ UNCHANGED monitorVars

\* a pipeline deletes the file it was given
FileGone(q) ==
    /\ q \in probe.exists /\ probe.files[q] > 0
    /\ probe' = [probe EXCEPT !.files[q] = @ - 1]
    /\ UNCHANGED monitorVars

NextScan ==
    \/ ScanTick
    \/ \E q \in TreeDirs : FileGone(q)

SpecScan == InitScan /\ [][NextScan]_vars

(***************************************************************************)
(* C33.  What a scan deletes.                                              *)
(***************************************************************************)
\* directory q holds neither a file nor a directory
EmptyDir(q) ==
    probe.files[q] = 0 /\ \A k \in TreeDirs \ {"root"} : k \in probe.exists => ParentDir(k) # q

\* the scan reads directory q: q and every directory above it can be listed
ScanReads(q) ==
    /\ q \in probe.exists
    /\ probe.fail[q] # "read" /\ probe.fail[ParentDir(q)] # "read"
    /\ probe.fail["root"] # "read"

\* C33: a scan never deletes the monitored root, never deletes a non-empty
\* directory and never deletes an empty subdirectory of a watcher whose
\* KeepEmptyDirs is true; it deletes an empty non-root directory it reads,
\* and may delete, exactly when KeepEmptyDirs is false.
C33_PrunesOnlyWhenConfigured ==
    [][ScanTick =>
          /\ "root" \notin probe'.removed
          /\ \A q \in probe'.removed : EmptyDir(q)
          /\ probe.KeepEmptyDirs => probe'.removed = {}
          /\ ~probe.KeepEmptyDirs =>
                \A q \in TreeDirs \ {"root"} :
                    (ScanReads(q) /\ EmptyDir(q) /\ probe.fail[q] = "none")
                        => q \in probe'.removed]_vars

(***************************************************************************)
(* C34.  A scan in which a directory cannot be read or pruned.             *)
(***************************************************************************)
\* C34: within one scan a failure to read or to prune one subdirectory
\* does not stop the walk: every file of every directory the scan can
\* list is submitted as a job in that same scan, and after any scan error
\* the scan loop is back at its select for the next tick.
C34_WalkGoesOn ==
    [][ScanTick =>
          /\ \A q \in TreeDirs :
                ScanReads(q) => \A i \in 1..probe.files[q] : <<q, i>> \in probe'.jobs
          /\ probe'.pc = "select"]_vars

\* a scan has met a directory it could not read or could not prune and has
\* submitted the file of a directory listed after it
C34_Witness ==
    /\ probe.err = "nil"
    /\ probe.fail["a"] = "read" \/ (probe.fail["a/c"] = "remove" /\ "a/c" \in probe.exists)
    /\ <<"b", 1>> \in probe.jobs

(***************************************************************************)
(* The cached matcher of a rule over the files of one watcher.             *)
(* probe.MatchGroups is d.MatchGroups with the field compiled of each rule *)
(* (TRUE: not nil), probe.compiles counts the calls of regexp.Compile for  *)
(* each rule, probe.evals the files evaluated.                             *)
(***************************************************************************)
MaxEvals == 2         \* files evaluated against the rules of a watcher

\* MatchGroup.Match on the MatchGroup value m: the value after the call,
\* whether regexp.Compile ran, and the result
MatchCached(m, filePath) ==
    [m |-> [m EXCEPT !.compiled = m.compiled \/ CompileOK(m.Expression)],
     ran |-> IF m.compiled THEN 0 ELSE 1,
     result |-> Match(m, filePath)]

RECURSIVE MatchLoop(_, _, _, _)
\* for _, matchGroup := range d.MatchGroups { matchGroup.Match(inFilePath) }:
\* matchGroup is a copy of the i-th element, Match is called on the copy and
\* the element of d.MatchGroups is not assigned
MatchLoop(groups, filePath, i, compiles) ==
    IF i > Len(groups) THEN compiles
    ELSE LET matchGroup == groups[i]
             r == MatchCached(matchGroup, filePath)
             counted == [compiles EXCEPT ![i] = @ + r.ran]
         IN  IF r.result # "match" THEN counted
             ELSE MatchLoop(groups, filePath, i + 1, counted)

InitCache ==
    /\ MonitorInit
    /\ \E rules \in RuleLists :
          probe = [MatchGroups |-> [i \in DOMAIN rules |->
                                      [Expression |-> rules[i].Expression,
                                       Exclude |-> rules[i].Exclude,
                                       compiled |-> FALSE]],
                   compiles |-> [i \in DOMAIN rules |-> 0],
                   evals |-> 0,
                   path |-> <<>>]

\* a worker evaluates a file against the rules of the watcher
EvalFile(filePath) ==
    /\ probe.evals < MaxEvals
    /\ probe' = [probe EXCEPT
                   !.compiles = MatchLoop(probe.MatchGroups, filePath, 1, @),
                   !.evals = @ + 1,
                   !.path = filePath]
    /\ UNCHANGED monitorVars

NextCache == \E filePath \in ProbePaths : EvalFile(filePath)

SpecCache == InitCache /\ [][NextCache]_vars

(***************************************************************************)
(* C35.  Compilations of a rule's expression.                              *)
(***************************************************************************)
\* C35: each match rule of a watcher compiles its expression at most once
\* over the watcher's lifetime, however many files are evaluated against
\* it; stated for the rules whose expression compiles, the only ones for
\* which a matcher exists to be cached.
C35_CompiledAtMostOnce ==
    \A i \in DOMAIN probe.compiles :
        CompileOK(probe.MatchGroups[i].Expression) => probe.compiles[i] <= 1

(***************************************************************************)
(* Add, Sub and Reset on a Stats s with another Stats o.  probe.hist holds *)
(* for each call made its name and the values of s and o before it.        *)
(***************************************************************************)
MaxOps == 2           \* calls made on one Stats

StatsValues == [TotalFiles : 0..(Modulus - 1), TotalBytes : 0..(Modulus - 1)]

InitStats ==
    /\ MonitorInit
    /\ probe \in [s : StatsValues, o : StatsValues, hist : {<<>>}]

Called(op) == Append(probe.hist, [op |-> op, s |-> probe.s, o |-> probe.o])

\* s.Add(&o)
StatsAdd ==
    /\ Len(probe.hist) < MaxOps
    /\ probe' = [probe EXCEPT !.s = Add(probe.s, probe.o), !.hist = Called("Add")]
    /\ UNCHANGED monitorVars

\* s.Sub(&o)
StatsSub ==
    /\ Len(probe.hist) < MaxOps
    /\ probe' = [probe EXCEPT !.s = Sub(probe.s, probe.o), !.hist = Called("Sub")]
    /\ UNCHANGED monitorVars

\* s.Reset()
StatsReset ==
    /\ Len(probe.hist) < MaxOps
    /\ probe' = [probe EXCEPT !.s = Reset(probe.s), !.hist = Called("Reset")]
    /\ UNCHANGED monitorVars

NextStats == StatsAdd \/ StatsSub \/ StatsReset

SpecStats == InitStats /\ [][NextStats]_vars

(***************************************************************************)
(* C36.  Add, Sub and Reset of Stats.                                      *)
(***************************************************************************)
\* the difference a - b of two counters modulo the width of a counter
Wrapped(a, b) == IF a >= b THEN a - b ELSE a - b + Modulus

\* the last call made on s was op
LastCall(op) == probe.hist # <<>> /\ probe.hist[Len(probe.hist)].op = op

\* C36: s.Add(o) followed by s.Sub(o) restores both counters of s; Sub is
\* subtraction modulo the width of the counters (a counter smaller than the
\* subtrahend wraps, it does not stop at 0); Reset sets both counters to 0;
\* Add and Sub leave o unchanged.
C36_AddSubReset ==
    /\ (LastCall("Add") \/ LastCall("Sub")) =>
          probe.o = probe.hist[Len(probe.hist)].o
    /\ LastCall("Reset") => probe.s = [TotalFiles |-> 0, TotalBytes |-> 0]
    /\ LastCall("Sub") =>
          LET before == probe.hist[Len(probe.hist)].s
          IN  /\ probe.s.TotalFiles = Wrapped(before.TotalFiles, probe.o.TotalFiles)
              /\ probe.s.TotalBytes = Wrapped(before.TotalBytes, probe.o.TotalBytes)
    /\ (LastCall("Sub") /\ Len(probe.hist) >= 2
           /\ probe.hist[Len(probe.hist) - 1].op = "Add") =>
          probe.s = probe.hist[Len(probe.hist) - 1].s

\* Add has overflowed a counter of s and the Sub that followed has wrapped
\* it back to its value
C36_Witness ==
    /\ Len(probe.hist) = 2
    /\ probe.hist[1].op = "Add" /\ probe.hist[2].op = "Sub"
    /\ probe.hist[2].s.TotalFiles < probe.hist[1].s.TotalFiles
    /\ probe.s = probe.hist[1].s

(***************************************************************************)
(* C37.  Jobs for a file that is still queued or in flight.                *)
(***************************************************************************)
\* C37: each file placed in a monitored root is run through the pipeline
\* at most once, also when scan ticks fire while its job is queued or in
\* flight.  Stated for the behaviours in which the environment fails
\* nothing: the files a watcher has counted are at most the files that have
\* arrived, and no job finds its file already gone (a stat failure, which
\* diverts to the error transports).
C37_AtMostOncePerFile ==
    faults = 0 =>
        /\ \A d \in DirNames : dir[d].TotalFiles <= drops
        /\ \A w \in WorkerIds : worker[w].log.outcome # "stat"

(***************************************************************************)
(* The scan loops of one watcher name over the watcher objects built for   *)
(* it.  probe.mapped is the object f.Dirs holds under the name (0: none),  *)
(* probe.made the objects built so far, probe.objs the fields Active and   *)
(* ctx (with ctxCancel) of each object, probe.loops the goroutines         *)
(* d.monitor with the object each runs on, probe.fctx the scope f.ctx,     *)
(* probe.parentDone whether f.ctxParent is cancelled.                      *)
(* A loop evaluates d.ctx of its own object at every select.               *)
(***************************************************************************)
MaxScanLoops == 2     \* goroutines d.monitor alive at once under one name

ScanLoopIds == 1..MaxScanLoops

NoScanLoop == [obj |-> 0, pc |-> "none"]

WatchNew ==
    [fctx |-> "nil", parentDone |-> FALSE, mapped |-> 0, made |-> 0,
     objs |-> [o \in ObjIds |-> [Active |-> FALSE, ctx |-> "nil"]],
     loops |-> [l \in ScanLoopIds |-> NoScanLoop], panic |-> FALSE]

FreeScanLoops(w) == {l \in ScanLoopIds : w.loops[l].pc = "none"}

\* Dir.Monitor on object o: d.ctx, d.ctxCancel derived from the parent's
\* f.ctx, then go d.monitor()
WatchMonitor(w, o) ==
    LET l == CHOOSE x \in FreeScanLoops(w) : \A y \in FreeScanLoops(w) : x <= y
    IN  [w EXCEPT !.objs[o].ctx = IF w.fctx = "live" THEN "live" ELSE "done",
                  !.loops[l] = [obj |-> o, pc |-> "spawned"]]

InitWatch ==
    /\ MonitorInit
    /\ probe = WatchNew

\* FileMonitor.Start: startWorkers derives f.ctx unless the workers run,
\* then dir.Monitor() for the watcher of the mapping
WatchStart ==
    /\ ~probe.panic
    /\ probe.mapped = 0 \/ FreeScanLoops(probe) # {}
    /\ LET started == [probe EXCEPT !.fctx = IF @ = "live" THEN "live"
                                             ELSE IF probe.parentDone THEN "done"
                                             ELSE "live"]
       IN  probe' = IF probe.mapped = 0 THEN started
                    ELSE WatchMonitor(started, probe.mapped)
    /\ probe' # probe
    /\ UNCHANGED monitorVars

\* FileMonitor.AddDir(dir) with an object built before or with the next
\* object the caller builds (Active unset)
WatchAddDir(o) ==
    /\ ~probe.panic
    /\ o \in 1..(probe.made + 1) /\ o \in ObjIds
    /\ probe.fctx = "live" => FreeScanLoops(probe) # {}
    /\ LET given == [probe EXCEPT !.made = IF o > @ THEN o ELSE @, !.mapped = o]
       IN  probe' = IF probe.fctx = "live" THEN WatchMonitor(given, o) ELSE given
    /\ probe' # probe
    /\ UNCHANGED monitorVars

\* FileMonitor.NewDir(name, ..., overwriteExistingDir, ...): a new object
\* with Active set replaces the entry of the mapping
WatchNewDir(overwriteExistingDir) ==
    /\ ~probe.panic
    /\ overwriteExistingDir \/ probe.mapped = 0
    /\ probe.made + 1 \in ObjIds
    /\ probe.fctx = "live" => FreeScanLoops(probe) # {}
    /\ LET o == probe.made + 1
           built == [probe EXCEPT !.made = o, !.mapped = o, !.objs[o].Active = TRUE]
       IN  probe' = IF probe.fctx = "live" THEN WatchMonitor(built, o) ELSE built
    /\ UNCHANGED monitorVars

\* FileMonitor.RemoveDir(dir) with the object of the mapping
WatchRemoveDir ==
    /\ ~probe.panic /\ probe.mapped # 0
    /\ LET o == probe.mapped
       IN  probe' =
             IF probe.objs[o].Active /\ probe.objs[o].ctx = "nil"
             THEN [probe EXCEPT !.panic = TRUE]
             ELSE [probe EXCEPT !.mapped = 0,
                                !.objs[o].ctx = IF probe.objs[o].Active THEN "done" ELSE @]
    /\ UNCHANGED monitorVars

\* Dir.monitor begins: d.Active = true
WatchLoopEnter(l) ==
    /\ ~probe.panic /\ probe.loops[l].pc = "spawned"
    /\ probe' = [probe EXCEPT !.loops[l].pc = "select",
                              !.objs[probe.loops[l].obj].Active = TRUE]
    /\ UNCHANGED monitorVars

\* case <-d.ctx.Done(): return; the deferred function clears Active
WatchLoopExit(l) ==
    /\ ~probe.panic /\ probe.loops[l].pc = "select"
    /\ probe.objs[probe.loops[l].obj].ctx = "done"
    /\ probe' = [probe EXCEPT !.loops[l] = NoScanLoop,
                              !.objs[probe.loops[l].obj].Active = FALSE]
    /\ UNCHANGED monitorVars

\* the root scope is cancelled: f.ctx and every scope derived from it
WatchCancelRoot ==
    /\ ~probe.panic /\ probe.fctx = "live"
    /\ probe' = [probe EXCEPT
                   !.fctx = "done", !.parentDone = TRUE,
                   !.objs = [o \in ObjIds |->
                               [@[o] EXCEPT !.ctx = IF @ = "live" THEN "done" ELSE @]]]
    /\ UNCHANGED monitorVars

NextWatch ==
    \/ WatchStart
    \/ \E o \in ObjIds : WatchAddDir(o)
    \/ \E overwriteExistingDir \in BOOLEAN : WatchNewDir(overwriteExistingDir)
    \/ WatchRemoveDir
    \/ \E l \in ScanLoopIds : WatchLoopEnter(l) \/ WatchLoopExit(l)
    \/ WatchCancelRoot

SpecWatch == InitWatch /\ [][NextWatch]_vars

(***************************************************************************)
(* C38.  Scan loops per watcher name.                                      *)
(***************************************************************************)
\* the scan loops of the name that have not returned
RunningScanLoops == {l \in ScanLoopIds : probe.loops[l].pc # "none"}

\* C38: in every reachable state at most one scan loop is running per
\* watcher name, and every running scan loop whose scope has not been
\* cancelled runs on the watcher the mapping holds, so that it can be
\* cancelled through the handle of that watcher.
C38_OneLoopPerName ==
    ~probe.panic =>
        /\ Cardinality(RunningScanLoops) <= 1
        /\ \A l \in RunningScanLoops :
              probe.objs[probe.loops[l].obj].ctx = "live" =>
                  probe.loops[l].obj = probe.mapped

(***************************************************************************)
(* C39.  Start on a pool that has fully stopped.                           *)
(***************************************************************************)
\* C39: Start() on a pool whose workers have all returned always returns:
\* the receive that samples the old queue and the send that puts the
\* sampled job back never block, be the old queue empty, partly filled or
\* full; no state is reached in which Start waits at one of the two with
\* no worker alive to move the queue.
C39_RestartNeverBlocks ==
    (~crashed /\ LiveWorkers = {}) =>
        /\ ~(startPc = "recv" /\ workerTasks = <<>>)
        /\ ~(startPc = "resend" /\ Len(workerTasks) = MaxJobs)

(***************************************************************************)
(* C40.  Loading what Update has written.                                  *)
(***************************************************************************)
\* C40: every configuration that Update() writes successfully can be
\* loaded again: for every watcher mapping, a watcher whose Processor is
\* absent or has the null type with no Executor included, loading the
\* written file succeeds and yields the same watcher names.
C40_WrittenConfigLoads ==
    (probe.op = "config" /\ probe.updated /\ probe.ret.called) =>
        /\ ~probe.ret.err
        /\ \A d \in DirNames :
              (probe.ret.Processors[d] = "-") <=> (probe.writer.Processors[d] = "-")
====
